---- MODULE Spec2Model ----
(***************************************************************************)
(* The signal engine of indulgent: SignalImplementation,                   *)
(* ComputedSignalImplementation and Effect (signal/signal.ts) on top of    *)
(* NextMicroTaskEmitter (signal/eventEmitter.ts), driven by a FIFO         *)
(* microtask queue.  One step is one synchronous call of user code or one  *)
(* microtask callback.                                                     *)
(***************************************************************************)
EXTENDS Integers, Sequences, FiniteSets, TLC

\* ------------------------------------------------------------------ bounds
\* number of set calls of user code in one behaviour
MaxOps == 3
\* number of registerDependent / unregisterDependent /
\* unregisterAllDependents calls of user code in one behaviour
MaxRegs == 4
\* number of initIndulgent calls in one behaviour
MaxInits == 2

\* ------------------------------------------------------------- the objects
\* `undefined`, the initial value of a computed signal's internal signal
UNDEF == -1
\* the emitter's "nothing emitted yet" symbol
NO_EMIT_VALUE == -2
\* "no argument" of the observation variables
NONE == NO_EMIT_VALUE - 1

\* the values given to plain signals
Val == {0, 1}
\* signal<T>(initialValue) objects of the program
Plain == {"a", "b"}
\* computed(() => ...) objects; each is identified with its internal signal
Computeds == {"c1", "c2"}
\* effect(() => ...) objects
Effects == {"e1", "e2"}
\* reactors of a program that constructs one inside the callback of another:
\*   eo = effect(() => { a.get(); try { ci ??= computed(...) } catch {}; b.get() })
\*   ci = computed(() => { const x = b.get(); if (x === 1) throw ...; return x })
\*   co = computed(() => { const y = b.get(); ei ??= effect(...); return y + a.get() })
\*   ei = effect(() => { if (a.get() === 1) throw ... })
NestedComputeds == {"co", "ci"}
NestedEffects == {"eo", "ei"}
\* an effect that reads one signal twice:
\*   er = effect(() => { a.get(); b.get(); a.get() })
RepeatEffects == {"er"}
Reactors ==
  Computeds \cup Effects \cup NestedComputeds \cup NestedEffects
    \cup RepeatEffects
\* storeSignal(key, initialValue) objects, named by their storage key
Stored == {"k"}
Sig == Plain \cup Computeds \cup NestedComputeds \cup Stored
\* the listener storeSignal registers: (newValue) => storage.setItem(...)
Writer == {"W"}
\* plain callbacks passed to registerDependent (vi.fn() in the tests)
Mock == {"L1", "L2"}
\* a callback that sets the signal it listens to: (v) => a.set(1)
Setters == {"LS"}
\* a callback that throws: () => { throw new Error() }
Throwers == {"LT"}
\* a listener is a callback or the dependencyFn of a computed / effect
Lis == Mock \cup Reactors \cup Writer \cup Setters \cup Throwers

\* an attribute <type>:<property>="<name>.<path>" of an element; name is the
\* part of the attribute's value before the first dot
Attr(type, prop, name, path) ==
  [type |-> type, prop |-> prop, name |-> name, path |-> path]

\* the elements of the pages, in document order, and their binding attributes
\*   x1: <input iobind:value="a">
\*   x2: <input obind:text_content="b" ibind:checked="b">
\*   x3: <input iobind:value="r" ibind:title="a" obind:alt=""
\*              obind:lang="n" obind:dir="w" obind:hidden="a">
\*   y1: <div obind:title="a"> <span obind:text_content="a"> (y2) </div>
\*   z1: <input iobind:value="u.name">
\*   z2: <input ibind:checked="u.name">
\* and the child nodes of the <ul> of the list page: text nodes t1 and t2,
\* the element h and one of the templates
\*   h:  <h2></h2>
\*   li: <li bind:for="item of items by item.id" obind:text_content="item.name">
\*   p:  <li bind:for="item of items by id" obind:text_content="item.name">
\*   q:  <li bind:for="item of items" obind:text_content="item.name">
\*   m:  <li bind:for="item of items" obind:title="items"
\*           obind:text_content="item.name">
\*   d:  <div bind:for="item of items">
\*         <p obind:title="item.name"> (d1)
\*           <b obind:text_content="item.name"></b> (d2)
\*         </p>
\*       </div>
\* a, b and u are writable signals, r = computed(() => 0) is read-only, w is
\* an object with set and update only, n is a number
El == {"x1", "x2", "x3"}
Tree == {"y1", "y2"}
Dotted == {"z1", "z2"}
ElOrder == <<"x1", "x2", "x3", "y1", "y2", "z1", "z2">>
Templates == {"li", "p", "q"}
\* the elements that have a bind:for attribute
ForBound == Templates \cup {"m", "d"}
ListEls == {"h", "d1", "d2"} \cup ForBound
Attrs(el) ==
  CASE el = "x1" -> <<Attr("iobind", "value", "a", <<>>)>>
    [] el = "x2" -> <<Attr("obind", "textContent", "b", <<>>),
                      Attr("ibind", "checked", "b", <<>>)>>
    [] el = "x3" -> <<Attr("iobind", "value", "r", <<>>),
                      Attr("ibind", "title", "a", <<>>),
                      Attr("obind", "alt", "", <<>>),
                      Attr("obind", "lang", "n", <<>>),
                      Attr("obind", "dir", "w", <<>>),
                      Attr("obind", "hidden", "a", <<>>)>>
    [] el = "y1" -> <<Attr("obind", "title", "a", <<>>)>>
    [] el = "y2" -> <<Attr("obind", "textContent", "a", <<>>)>>
    [] el = "z1" -> <<Attr("iobind", "value", "u", <<"name">>)>>
    [] el = "z2" -> <<Attr("ibind", "checked", "u", <<"name">>)>>
    [] el = "h" -> <<>>
    [] el = "m" -> <<Attr("obind", "title", "items", <<>>),
                     Attr("obind", "textContent", "item", <<"name">>)>>
    [] el = "d" -> <<>>
    [] el = "d1" -> <<Attr("obind", "title", "item", <<"name">>)>>
    [] el = "d2" -> <<Attr("obind", "textContent", "item", <<"name">>)>>
    [] el \in Templates -> <<Attr("obind", "textContent", "item", <<"name">>)>>
\* the bind:for attribute of a template, as validateForAttr's regular
\* expression splits it (the tracker path split at its dots)
ForAttr(el) ==
  [itemName |-> "item", signalName |-> "items",
   trackerPath |-> CASE el = "li" -> <<"item", "id">>
                     [] el = "p" -> <<"id">>
                     [] OTHER -> <<>>]
\* element.children of an element of the pages
Children(el) ==
  CASE el = "y1" -> <<"y2">>
    [] el = "d" -> <<"d1">>
    [] el = "d1" -> <<"d2">>
    [] OTHER -> <<>>
\* the context objects the program passes to initIndulgent
Ctxs == {{"a", "r", "n", "w"}, {"a", "b", "r", "n", "w"}}
\* isWriteSignal of an object
Writable(name) == name \in {"a", "b", "u", "items", "w"}
\* inputBindings: the DOM event that reports a change of the property
inputBindings ==
  [value |-> "input", checked |-> "change", selected |-> "change",
   open |-> "toggle"]

\* ----------------------------------------------------------------- state
VARIABLES
  value,             \* SignalImplementation.value
  dependents,        \* SignalImplementation.dependents
  listeners,         \* NextMicroTaskEmitter.listeners (insertion order)
  scheduledUpdates,  \* NextMicroTaskEmitter.scheduledUpdates (insertion order)
  updateQueued,      \* NextMicroTaskEmitter.updateQueued
  lastEvent,         \* NextMicroTaskEmitter.lastEvent
  microtasks,        \* the host's microtask queue (queueMicrotask), FIFO
  dependencies,      \* ComputedSignalImplementation / Effect .dependencies
  scheduled,         \* ComputedSignalImplementation / Effect .scheduled
  created,           \* which computed / effect objects have been constructed
  error,             \* the exception the latest step has thrown, or ""
  storage,           \* the Storage object: key -> string, absent keys are null
  reaction,          \* the module variable `reaction`: the reactor whose
                     \* track() call is recording reads, or "" for null
  inDom,             \* the elements attached below the root
  marked,            \* the elements that have a data-indulgent-id attribute
  outBound,          \* outBound[el][i]: output listeners (modifyProperty)
                     \* registered for attribute i of el
  inBound,           \* inBound[el][i]: DOM event listeners added for it
  observing,         \* roots.has(root)
  observers,         \* the MutationObservers that observe the root
  globalCtx,         \* globalCtx: name -> the object stored under it
  attrs,             \* the binding attributes of each element
  props,             \* props[el][p]: the property p of element el
  closures,          \* the function objects the DOM bindings have created:
                     \* what each one does when it is called
  computeFns,        \* the computeFn of each computed signal the DOM
                     \* bindings have created
  nextId,            \* objects created by the DOM bindings so far
  skipped,           \* the elements a scan has visited and left unmarked
  nodes,             \* the child nodes of the <ul> of the list page, in order
  forMark,           \* per clone: its data-indulgent-for and
                     \* data-indulgent-for-key attributes, and the item at
                     \* its index when it was made
  cloneChildren,     \* per element that cloneNode made: element.children
  mutations,         \* the MutationObserver's queued records (added nodes)
  currentId,         \* globalThis.__indulgentData.currentId
  inputSets,         \* signal.set calls made by the latest DOM event
  inits,             \* initIndulgent calls made so far
  lastReads,         \* what track() returned in the latest run of a reactor
  returned,          \* the reactors whose track() call returned normally in
                     \* the latest step
  dropped,           \* signals a reactor read in some run and not in a later one
  undelivered,       \* a signal changed value and no flush has delivered it yet
  mode,              \* "sync": user code only since quiescence; "drain":
                     \* then microtasks only; "mixed": user code in between
  snap,              \* lastReads when the burst began
  runs,              \* runs of computeFn / effectFn since the burst began
  calls,             \* calls[s][l]: invocations of l by s's emitter in the burst
  args,              \* args[s][l]: argument of the latest such invocation
  sets,              \* value-changing set calls per plain signal in the burst
  touched,           \* listeners (un)registered per signal in the burst
  cancelled,         \* per signal, the callbacks of user code unregistered in
                     \* the burst while they were scheduled
  log,               \* the listeners the latest flush invoked, in call order
  regOrder,          \* per signal, the callbacks of user code that are
                     \* registered, in the order of their latest registration
  op,                \* the call or callback that made the latest step
  ops,               \* set calls made so far
  regs               \* (un)registering calls made so far

vars == <<value, dependents, listeners, scheduledUpdates, updateQueued,
          lastEvent, microtasks, dependencies, scheduled, created, error,
          reaction, storage, inDom, marked, outBound, inBound, observing,
          observers, globalCtx, attrs, props, closures, computeFns, nextId,
          skipped, nodes, forMark, cloneChildren, mutations, currentId, inputSets,
          inits,
          lastReads, returned, dropped, undelivered, mode, snap, runs, calls, args,
          sets, touched, cancelled, log, regOrder, op, ops, regs>>

\* the program's own variables (everything but the observations)
prog == <<value, dependents, listeners, scheduledUpdates, updateQueued,
          lastEvent, microtasks, dependencies, scheduled, created, error,
          reaction, storage>>

\* the state as one record, threaded through the nested calls of a handler;
\* signals[r] is the local array `signals` of the track() call of reactor r
Cur ==
  [value |-> value, dependents |-> dependents, listeners |-> listeners,
   scheduledUpdates |-> scheduledUpdates, updateQueued |-> updateQueued,
   lastEvent |-> lastEvent, microtasks |-> microtasks,
   dependencies |-> dependencies, scheduled |-> scheduled,
   created |-> created, error |-> error, reaction |-> reaction,
   storage |-> storage, inDom |-> inDom, marked |-> marked,
   outBound |-> outBound, inBound |-> inBound, observing |-> observing,
   observers |-> observers, globalCtx |-> globalCtx, attrs |-> attrs,
   props |-> props, closures |-> closures, computeFns |-> computeFns,
   nextId |-> nextId, skipped |-> skipped, nodes |-> nodes,
   forMark |-> forMark, cloneChildren |-> cloneChildren,
   mutations |-> mutations, currentId |-> currentId,
   inputSets |-> inputSets, inits |-> inits, didAddBinding |-> FALSE,
   cleared |-> {}, thrown |-> FALSE,
   signals |-> [r \in DOMAIN dependencies |-> <<>>],
   lastReads |-> lastReads, returned |-> returned,
   dropped |-> dropped, undelivered |-> undelivered, mode |-> mode,
   snap |-> snap, runs |-> runs, calls |-> calls, args |-> args,
   sets |-> sets, touched |-> touched, cancelled |-> cancelled,
   log |-> log, regOrder |-> regOrder]

Becomes(st) ==
  /\ value' = st.value
  /\ dependents' = st.dependents
  /\ listeners' = st.listeners
  /\ scheduledUpdates' = st.scheduledUpdates
  /\ updateQueued' = st.updateQueued
  /\ lastEvent' = st.lastEvent
  /\ microtasks' = st.microtasks
  /\ dependencies' = st.dependencies
  /\ scheduled' = st.scheduled
  /\ created' = st.created
  /\ error' = st.error
  /\ reaction' = st.reaction
  /\ storage' = st.storage
  /\ inDom' = st.inDom
  /\ marked' = st.marked
  /\ outBound' = st.outBound
  /\ inBound' = st.inBound
  /\ observing' = st.observing
  /\ observers' = st.observers
  /\ globalCtx' = st.globalCtx
  /\ attrs' = st.attrs
  /\ props' = st.props
  /\ closures' = st.closures
  /\ computeFns' = st.computeFns
  /\ nextId' = st.nextId
  /\ skipped' = st.skipped
  /\ nodes' = st.nodes
  /\ forMark' = st.forMark
  /\ cloneChildren' = st.cloneChildren
  /\ mutations' = st.mutations
  /\ currentId' = st.currentId
  /\ inputSets' = st.inputSets
  /\ inits' = st.inits
  /\ returned' = st.returned
  /\ lastReads' = st.lastReads
  /\ dropped' = st.dropped
  /\ undelivered' = st.undelivered
  /\ mode' = st.mode
  /\ snap' = st.snap
  /\ runs' = st.runs
  /\ calls' = st.calls
  /\ args' = st.args
  /\ sets' = st.sets
  /\ touched' = st.touched
  /\ cancelled' = st.cancelled
  /\ log' = st.log
  /\ regOrder' = st.regOrder

\* --------------------------------------------- a JS Set, in insertion order
Range(q) == {q[i] : i \in 1..Len(q)}
SetAdd(q, x) == IF x \in Range(q) THEN q ELSE Append(q, x)
SetDelete(q, x) == SelectSeq(q, LAMBDA y : y # x)
RECURSIVE SetAddAll(_, _)
SetAddAll(q, xs) ==
  IF xs = <<>> THEN q ELSE SetAddAll(SetAdd(q, Head(xs)), Tail(xs))

\* --------------------------------------------------- NextMicroTaskEmitter
OnPrepends(st, s, l) ==
  [st EXCEPT !.listeners[s] = IF l \in Range(@) THEN @ ELSE <<l>> \o @]
\* on(listener)
on(st, s, l) == [st EXCEPT !.listeners[s] = SetAdd(@, l)]

OffKeepsScheduled(st, s, l) == [st EXCEPT !.listeners[s] = SetDelete(@, l)]
\* off(listener)
off(st, s, l) ==
  [st EXCEPT !.listeners[s] = SetDelete(@, l),
             !.scheduledUpdates[s] = SetDelete(@, l)]

EmitKeepsFirstEvent(st, s, v) ==
  [st EXCEPT !.scheduledUpdates[s] =
               SetAddAll(IF st.updateQueued[s] THEN <<>> ELSE @,
                         st.listeners[s]),
             !.lastEvent[s] = IF st.updateQueued[s] THEN @ ELSE v,
             !.updateQueued[s] = TRUE,
             !.microtasks = Append(@, [kind |-> "processUpdates", of |-> s])]
EmitForgetsEvent(st, s, v) ==
  [st EXCEPT !.scheduledUpdates[s] =
               SetAddAll(IF st.updateQueued[s] THEN <<>> ELSE @,
                         st.listeners[s]),
             !.updateQueued[s] = TRUE,
             !.microtasks = Append(@, [kind |-> "processUpdates", of |-> s])]
\* emit(event); `cleared` notes scheduledUpdates.clear() for a for...of
\* loop over the set that may be running
emit(st, s, v) ==
  [st EXCEPT !.scheduledUpdates[s] =
               SetAddAll(IF st.updateQueued[s] THEN <<>> ELSE @,
                         st.listeners[s]),
             !.cleared = IF st.updateQueued[s] THEN @ \cup {s} ELSE @,
             !.lastEvent[s] = v,
             !.updateQueued[s] = TRUE,
             !.microtasks = Append(@, [kind |-> "processUpdates", of |-> s])]

\* ---------------------------------------------------- SignalImplementation
EqualsNever(x, y) == FALSE
\* the default equalsFn: JSON.stringify(a) === JSON.stringify(b)
equalsFn(x, y) == x = y

\* JSON.stringify of a value, as Storage.setItem stores it
Stringify(v) ==
  CASE v = 0 -> "0"
    [] v = 1 -> "1"
    [] OTHER -> "undefined"

\* JSON.parse succeeds on this string
Parses(str) == str \in {"0", "1"}
\* JSON.parse of a string it accepts
Parse(str) == CASE str = "0" -> 0 [] str = "1" -> 1

\* storage.getItem(key) is not null
HasItem(st, key) == key \in DOMAIN st.storage
\* storage.setItem(key, str)
setItem(st, key, str) ==
  [st EXCEPT !.storage = [x \in DOMAIN st.storage \cup {key} |->
                            IF x = key THEN str ELSE st.storage[x]]]

\* the equalsFn storeSignal gives to its signal
StoreEqualsFn(st, key, x, y) ==
  IF ~HasItem(st, key) THEN x = y
  ELSE IF Parses(st.storage[key])
         THEN Stringify(Parse(st.storage[key])) = Stringify(y) /\ x = y
         ELSE x = y

\* get(): the value (the read is reported to the active tracker, see track)
get(st, s) == st.value[s]

SetKeepsOldValue(st, s, v) ==
  IF ~equalsFn(st.value[s], v) THEN emit(st, s, v) ELSE st
\* set(newValue), on a plain signal or on a computed's internal signal
set(st, s, v) ==
  IF ~(IF s \in Stored THEN StoreEqualsFn(st, s, st.value[s], v)
       ELSE equalsFn(st.value[s], v))
    THEN emit([st EXCEPT !.value[s] = v,
                         !.undelivered[s] = @ \/ st.value[s] # v], s, v)
    ELSE st

RegisterDependentAlwaysAdds(st, s, l) ==
  [st EXCEPT !.dependents[s] = @ \cup {l}, !.listeners[s] = Append(@, l)]
\* registerDependent(listener)
registerDependent(st, s, l) ==
  IF l \notin st.dependents[s]
    THEN on([st EXCEPT !.dependents[s] = @ \cup {l}], s, l)
    ELSE st

UnregisterDependentNoOff(st, s, l) ==
  [st EXCEPT !.dependents[s] = @ \ {l}]
\* unregisterDependent(listener)
unregisterDependent(st, s, l) ==
  IF l \in st.dependents[s]
    THEN off([st EXCEPT !.dependents[s] = @ \ {l}], s, l)
    ELSE st

RECURSIVE OffAll(_, _, _)
OffAll(st, s, ls) ==
  IF ls = {} THEN st
  ELSE LET l == CHOOSE x \in ls : TRUE
       IN OffAll(off(st, s, l), s, ls \ {l})
\* unregisterAllDependents()
unregisterAllDependents(st, s) ==
  [OffAll(st, s, st.dependents[s]) EXCEPT !.dependents[s] = {}]

\* update(cb)
update(st, s, cb) == set(st, s, cb[st.value[s]])

\* storeSignal(key, initialValue)
storeSignal(st, key, initialValue) ==
  IF HasItem(st, key) /\ ~Parses(st.storage[key])
    THEN [st EXCEPT !.error = "Failed to parse stored value"]
    ELSE LET st1 == IF HasItem(st, key) THEN st
                    ELSE setItem(st, key, Stringify(initialValue))
             parsedValue == IF HasItem(st, key) THEN Parse(st.storage[key])
                            ELSE initialValue
         IN registerDependent([st1 EXCEPT !.value[key] = parsedValue,
                                          !.created[key] = TRUE],
                              key, "W")

\* ------------------------------------------------------------ the values
\* an object { id, name } is the number 10 * id + name, and the numbers
\* below 10 are primitive values; an array of objects is a number from
\* 1000000 on, with two decimal digits per item
IsArray(v) == v >= 1000000
IsObj(v) == v >= 10 /\ ~IsArray(v)
Obj(id, name) == 10 * id + name

RECURSIVE Enc(_)
Enc(items) ==
  IF items = <<>> THEN 0
  ELSE 100 * Enc(SubSeq(items, 1, Len(items) - 1)) + items[Len(items)] + 1
\* the array with the items items
Arr(items) == 1000000 + Enc(items)

RECURSIVE Dec(_)
Dec(n) == IF n = 0 THEN <<>> ELSE Append(Dec(n \div 100), (n % 100) - 1)
\* the items of the array v
Items(v) == Dec(v - 1000000)

\* getPath(obj, path) for a path of one part
getPath(obj, part) ==
  IF ~IsObj(obj) THEN UNDEF
  ELSE CASE part = "id" -> obj \div 10
         [] part = "name" -> obj % 10
         [] OTHER -> UNDEF

\* the while loop of the computeFn that getSignal builds for a dotted name
RECURSIVE walk(_, _)
walk(current, parts) ==
  IF parts = <<>> THEN current
  ELSE IF current = UNDEF THEN UNDEF
  ELSE walk(getPath(current, Head(parts)), Tail(parts))

\* the computeFn of a computed signal that the DOM bindings create:
\*   path:  () => baseSignal.get() followed along parts[1..]
\*   index: () => signal.get()[index]
apply(fn, val) ==
  CASE fn.kind = "path" -> walk(val[fn.src], fn.path)
    [] fn.kind = "index" ->
         IF IsArray(val[fn.src]) /\ fn.index < Len(Items(val[fn.src]))
           THEN Items(val[fn.src])[fn.index + 1]
           ELSE UNDEF

\* F applied to the value of v: the state that one call leaves is handed to
\* the next call as a value
Then(v, F(_)) == CHOOSE r \in {F(x) : x \in {v}} : TRUE

\* f with the entry x |-> v
Ext(f, x, v) == (x :> v) @@ f

\* --------------------------------------------- the callbacks of the program
\* the signals a compute / effect callback reads (get() calls), in order
Reads(r, val) ==
  CASE r = "c1" -> IF val["a"] = 0 THEN <<"a">> ELSE <<"a", "b">>
    [] r = "c2" -> <<"c1", "a", "b">>
    [] r = "e1" -> IF val["a"] = 0 THEN <<"a">> ELSE <<"a", "b">>
    [] r = "e2" -> <<"c1", "a">>
    [] r = "eo" -> <<"a", "b">>
    [] r = "ci" -> <<"b">>
    [] r = "co" -> <<"b", "a">>
    [] r = "ei" -> <<"a">>
    [] r = "er" -> <<"a", "b", "a">>

\* the value a compute callback returns
\*   c1 = computed(() => a.get() === 0 ? 0 : b.get())
\*   c2 = computed(() => c1.get() + a.get() + b.get())
computeFn(c, val) ==
  CASE c = "c1" -> IF val["a"] = 0 THEN 0 ELSE val["b"]
    [] c = "c2" -> val["c1"] + val["a"] + val["b"]
    [] c = "ci" -> val["b"]
    [] c = "co" -> val["b"] + val["a"]

\* the program constructs c1, c2, e1, e2 in this order: the reactors that
\* exist before r is constructed
Upstream(r) ==
  CASE r = "c1" -> {}
    [] r = "c2" -> {"c1"}
    [] r = "e1" -> {"c1"}
    [] r = "e2" -> {"c1", "e1"}
    [] r = "eo" -> {}
    [] r = "co" -> {}
    [] r = "er" -> {}

\* dependencyFn of a computed signal or an effect
dependencyFn(st, r) ==
  IF st.scheduled[r] THEN st
  ELSE [st EXCEPT !.scheduled[r] = TRUE,
                  !.microtasks = Append(@, [kind |-> "track", of |-> r])]

RECURSIVE UnregisterEach(_, _, _)
UnregisterEach(st, deps, r) ==
  IF deps = {} THEN st
  ELSE LET d == CHOOSE x \in deps : TRUE
       IN UnregisterEach(unregisterDependent(st, d, r), deps \ {d}, r)

RECURSIVE RegisterNew(_, _, _)
RegisterNew(st, reads, r) ==
  IF reads = <<>> THEN st
  ELSE LET d == Head(reads)
       IN IF d \in st.dependencies[r] THEN RegisterNew(st, Tail(reads), r)
          ELSE RegisterNew(
                 [registerDependent(st, d, r) EXCEPT !.dependencies[r] = @ \cup {d}],
                 Tail(reads), r)

\* the statements of a callback, in order
Get(s) == [do |-> "get", on |-> s]
New(x) == [do |-> "new", on |-> x]
TryNew(x) == [do |-> "trynew", on |-> x]
Throw == [do |-> "throw", on |-> ""]

\* the gets of a callback as statements
RECURSIVE Gets(_)
Gets(reads) ==
  IF reads = <<>> THEN <<>> ELSE <<Get(Head(reads))>> \o Gets(Tail(reads))

\* the callback of reactor r as the statements it executes, given the
\* values and the reactors that exist when it starts
Body(r, val, cr) ==
  CASE r = "eo" -> <<Get("a")>>
                   \o (IF cr["ci"] THEN <<>> ELSE <<TryNew("ci")>>)
                   \o <<Get("b")>>
    [] r = "ci" -> <<Get("b")>> \o (IF val["b"] = 1 THEN <<Throw>> ELSE <<>>)
    [] r = "co" -> <<Get("b")>>
                   \o (IF cr["ei"] THEN <<>> ELSE <<New("ei")>>)
                   \o <<Get("a")>>
    [] r = "ei" -> <<Get("a")>> \o (IF val["a"] = 1 THEN <<Throw>> ELSE <<>>)
    [] OTHER -> Gets(Reads(r, val))

\* get() reports the signal to the active tracker: reaction?.(this)
Report(st, s) ==
  IF st.reaction = "" THEN st
  ELSE [st EXCEPT !.signals[st.reaction] = Append(@, s)]

\* track: the new `signals` array and the new `reaction` closure
trackEnter(r, st) == [st EXCEPT !.signals[r] = <<>>, !.reaction = r]

TrackNoRestore(st1, prevReaction, r) ==
  [st1 EXCEPT !.returned = IF st1.error = "" THEN @ \cup {r} ELSE @]
\* track: finally { reaction = prevReaction }, then the return of `signals`
\* unless the callback threw
trackFinally(st1, prevReaction, r) ==
  [st1 EXCEPT !.reaction = prevReaction,
              !.returned = IF st1.error = "" THEN @ \cup {r} ELSE @]

\* ComputedSignalImplementation.track() after its track(...) call returned
\* dependencies in state st0: set, unregister, register (st: the state before)
ComputedUpdate(st, st0, c) ==
  LET reads == st0.signals[c]
      st1 == set(st0, c, IF c \in DOMAIN st0.computeFns
                           THEN apply(st0.computeFns[c], st0.value)
                           ELSE computeFn(c, st0.value))
      stale == {d \in st1.dependencies[c] : d \notin Range(reads)}
      st2 == UnregisterEach(st1, stale, c)
      st3 == RegisterNew(st2, reads, c)
  IN IF st0.error # "" THEN [st0 EXCEPT !.runs[c] = @ + 1]
     ELSE [st3 EXCEPT !.lastReads[c] = reads, !.runs[c] = @ + 1,
                      !.dropped[c] =
                         @ \cup (Range(st.lastReads[c]) \ Range(reads))]

\* Effect.track() after its track(...) call returned signals in state st0
EffectUpdate(st, st0, e) ==
  LET reads == st0.signals[e]
      stale == {d \in st0.dependencies[e] : d \notin Range(reads)}
      st1 == [UnregisterEach(st0, stale, e) EXCEPT !.dependencies[e] = @ \ stale]
      st2 == RegisterNew(st1, reads, e)
  IN IF st0.error # "" THEN [st0 EXCEPT !.runs[e] = @ + 1]
     ELSE [st2 EXCEPT !.lastReads[e] = reads, !.runs[e] = @ + 1,
                      !.dropped[e] =
                         @ \cup (Range(st.lastReads[e]) \ Range(reads))]

\* the statements of a callback that constructs nothing, run until one throws
RECURSIVE RunInner(_, _)
RunInner(st, ins) ==
  IF ins = <<>> \/ st.error # "" THEN st
  ELSE LET i == Head(ins)
           st1 == CASE i.do = "get" -> Report(st, i.on)
                    [] i.do = "throw" ->
                         [st EXCEPT !.error = "thrown by callback"]
                    [] OTHER -> st
       IN RunInner(st1, Tail(ins))

\* track(callback) for the callback of a reactor constructed in a callback
trackInner(r, st) ==
  trackFinally(RunInner(trackEnter(r, st), Body(r, st.value, st.created)),
               st.reaction, r)

\* new ComputedSignalImplementation(...) / new Effect(...) inside a callback:
\* the constructor calls this.track(); when it throws no object comes to
\* exist (and runs counts the runs of the callbacks of existing reactors only)
ConstructInner(st, x) ==
  LET st0 == [st EXCEPT !.created[x] = TRUE]
      st1 == IF x \in Computeds \cup NestedComputeds
               THEN ComputedUpdate(st0, trackInner(x, st0), x)
               ELSE EffectUpdate(st0, trackInner(x, st0), x)
  IN IF st1.error # ""
       THEN [st1 EXCEPT !.created[x] = FALSE, !.runs[x] = st.runs[x]]
       ELSE st1

\* the statements of a callback run until one throws
RECURSIVE RunBody(_, _)
RunBody(st, ins) ==
  IF ins = <<>> \/ st.error # "" THEN st
  ELSE LET i == Head(ins)
           st1 == CASE i.do = "get" -> Report(st, i.on)
                    [] i.do = "new" -> ConstructInner(st, i.on)
                    [] i.do = "trynew" ->
                         [ConstructInner(st, i.on) EXCEPT !.error = ""]
                    [] i.do = "throw" ->
                         [st EXCEPT !.error = "thrown by callback"]
       IN RunBody(st1, Tail(ins))

\* track(callback) for the callback of reactor r: the state when it returns
\* or throws; the list it returns is signals[r]
track(r, st) ==
  trackFinally(RunBody(trackEnter(r, st),
                       IF r \in DOMAIN st.computeFns
                         THEN <<Get(st.computeFns[r].src)>>
                         ELSE Body(r, st.value, st.created)),
               st.reaction, r)

ComputedTrackAlwaysEmits(st, c) ==
  LET st0 == track(c, st)
      reads == st0.signals[c]
      v == computeFn(c, st0.value)
      st1 == emit([st0 EXCEPT !.value[c] = v,
                              !.undelivered[c] = @ \/ st0.value[c] # v], c, v)
      stale == {d \in st1.dependencies[c] : d \notin Range(reads)}
      st2 == UnregisterEach(st1, stale, c)
      st3 == RegisterNew(st2, reads, c)
  IN IF st0.error # "" THEN [st0 EXCEPT !.runs[c] = @ + 1]
     ELSE [st3 EXCEPT !.lastReads[c] = reads, !.runs[c] = @ + 1,
                      !.dropped[c] =
                         @ \cup (Range(st.lastReads[c]) \ Range(reads))]
\* ComputedSignalImplementation.track()
ComputedTrack(st, c) == ComputedUpdate(st, track(c, st), c)

EffectTrackKeepsStale(st, e) ==
  LET st0 == track(e, st)
      reads == st0.signals[e]
      stale == {d \in st0.dependencies[e] : d \notin Range(reads)}
      st1 == UnregisterEach(st0, stale, e)
      st2 == RegisterNew(st1, reads, e)
  IN IF st0.error # "" THEN [st0 EXCEPT !.runs[e] = @ + 1]
     ELSE [st2 EXCEPT !.lastReads[e] = reads, !.runs[e] = @ + 1,
                      !.dropped[e] =
                         @ \cup (Range(st.lastReads[e]) \ Range(reads))]
EffectTrackNoUnregister(st, e) ==
  LET st0 == track(e, st)
      reads == st0.signals[e]
      st2 == RegisterNew(st0, reads, e)
  IN IF st0.error # "" THEN [st0 EXCEPT !.runs[e] = @ + 1]
     ELSE [st2 EXCEPT !.lastReads[e] = reads, !.runs[e] = @ + 1,
                      !.dropped[e] =
                         @ \cup (Range(st.lastReads[e]) \ Range(reads))]
\* Effect.track()
EffectTrack(st, e) == EffectUpdate(st, track(e, st), e)

\* new ComputedSignalImplementation(...) / new Effect(...) in user code
Construct(st, x) ==
  LET st0 == [st EXCEPT !.created[x] = TRUE]
      st1 == IF x \in Computeds \cup NestedComputeds
               THEN ComputedTrack(st0, x) ELSE EffectTrack(st0, x)
  IN IF st1.error # ""
       THEN [st1 EXCEPT !.created[x] = FALSE, !.runs[x] = st.runs[x]]
       ELSE st1

\* ------------------------------------------------------------ DOM bindings
\* "no signal": what validateSignal and getSignal return for `undefined`
NoSignal == ""

\* isReadSignal of an object: every signal object of the model but w
Readable(st, o) == o \in DOMAIN st.value

\* new SignalImplementation(initialValue)
NewSignal(st, s, initialValue) ==
  [st EXCEPT !.value = Ext(@, s, initialValue),
             !.dependents = Ext(@, s, {}),
             !.listeners = Ext(@, s, <<>>),
             !.scheduledUpdates = Ext(@, s, <<>>),
             !.updateQueued = Ext(@, s, FALSE),
             !.lastEvent = Ext(@, s, NO_EMIT_VALUE),
             !.undelivered = Ext(@, s, FALSE)]

\* computed(fn): the object c with its internal signal, and the first track()
computed(st, c, fn) ==
  ComputedTrack([NewSignal(st, c, UNDEF) EXCEPT
                   !.computeFns = Ext(@, c, fn),
                   !.dependencies = Ext(@, c, {}),
                   !.scheduled = Ext(@, c, FALSE),
                   !.created = Ext(@, c, TRUE),
                   !.lastReads = Ext(@, c, <<>>),
                   !.dropped = Ext(@, c, {}),
                   !.runs = Ext(@, c, 0),
                   !.signals = Ext(@, c, <<>>)], c)

ModifyPropertyKeeps(st, l, v) == st
\* modifyProperty(value), the closure that setOutBinding creates
modifyProperty(st, l, v) ==
  LET f == st.closures[l] IN [st EXCEPT !.props[f.el][f.prop] = v]

\* the listener that setInBinding adds: signal.set(inputGetter(e.target))
inputListener(st, l) ==
  LET f == st.closures[l]
  IN [set(st, f.signal, st.props[f.el][f.prop]) EXCEPT !.inputSets = @ + 1]

SetOutBindingNoInitial(st, el, i, signal) ==
  LET property == st.attrs[el][i].prop
      l == el \o "." \o property \o "#" \o ToString(st.outBound[el][i] + 1)
      st1 == [st EXCEPT !.closures =
                Ext(@, l, [kind |-> "modifyProperty", el |-> el,
                           prop |-> property, signal |-> signal])]
  IN [registerDependent(st1, signal, l) EXCEPT !.outBound[el][i] = @ + 1]
\* setOutBinding(el, property, signal): a new modifyProperty closure is
\* called with signal.get() and registered on the signal
setOutBinding(st, el, i, signal) ==
  LET property == st.attrs[el][i].prop
      l == el \o "." \o property \o "#" \o ToString(st.outBound[el][i] + 1)
      st1 == [st EXCEPT !.closures =
                Ext(@, l, [kind |-> "modifyProperty", el |-> el,
                           prop |-> property, signal |-> signal])]
      st2 == modifyProperty(st1, l, get(st1, signal))
  IN [registerDependent(st2, signal, l) EXCEPT !.outBound[el][i] = @ + 1]

\* setInBinding(el, property, signal): adds a new DOM event listener, when
\* the property has an input binding
setInBinding(st, el, i, signal) ==
  LET property == st.attrs[el][i].prop
      l == el \o "." \o property \o "@" \o ToString(st.inBound[el][i] + 1)
  IN IF property \notin DOMAIN inputBindings THEN st
     ELSE [st EXCEPT !.inBound[el][i] = @ + 1,
                     !.closures =
                        Ext(@, l, [kind |-> "input", el |-> el,
                                   prop |-> property, signal |-> signal])]

\* validateSignal(ctx, name, logger)
validateSignal(st, name) ==
  LET signal == st.globalCtx[name]
  IN IF ~Readable(st, signal) /\ ~Writable(signal) THEN NoSignal
     ELSE signal

GetSignalBaseOnly(st, b) ==
  IF b.name \in DOMAIN st.globalCtx
    THEN [st |-> st, signal |-> validateSignal(st, b.name)]
    ELSE [st |-> st, signal |-> NoSignal]
\* getSignal(ctx, signalName, logger) for the value of attribute b: the
\* state it leaves and the signal it returns
getSignal(st, b) ==
  IF b.path = <<>>
    THEN IF b.name \in DOMAIN st.globalCtx
           THEN [st |-> st, signal |-> validateSignal(st, b.name)]
           ELSE [st |-> st, signal |-> NoSignal]
    ELSE IF b.name \notin DOMAIN st.globalCtx
              \/ ~Readable(st, st.globalCtx[b.name])
           THEN [st |-> st, signal |-> NoSignal]
           ELSE LET c == "computed" \o ToString(st.nextId + 1)
                IN [st |-> computed([st EXCEPT !.nextId = @ + 1], c,
                                    [kind |-> "path",
                                     src |-> st.globalCtx[b.name],
                                     path |-> b.path]),
                    signal |-> c]

\* createBindings: the body of bindings.forEach for attribute i of el
bindAttr(st, el, i) ==
  LET b == st.attrs[el][i]
      out == b.type \in {"iobind", "obind"}
      in == b.type \in {"iobind", "ibind"}
  IN IF b.name = "" THEN st
     ELSE Then(getSignal(st, b), LAMBDA got :
       IF got.signal = NoSignal THEN got.st
       ELSE IF out /\ ~Readable(got.st, got.signal) THEN got.st
       ELSE Then(IF out
                   THEN [setOutBinding(got.st, el, i, got.signal) EXCEPT
                           !.didAddBinding = TRUE]
                   ELSE got.st,
                 LAMBDA st1 :
         IF in /\ ~Writable(got.signal) THEN st1
         ELSE IF in
           THEN [setInBinding(st1, el, i, got.signal) EXCEPT
                   !.didAddBinding = TRUE]
         ELSE [st1 EXCEPT !.didAddBinding = TRUE]))

RECURSIVE BindAttrsStopsAtError(_, _, _)
BindAttrsStopsAtError(st, el, i) ==
  IF i > Len(st.attrs[el]) THEN st
  ELSE Then(bindAttr(st, el, i),
            LAMBDA st1 :
              IF st1.outBound = st.outBound /\ st1.inBound = st.inBound
                THEN st1
                ELSE BindAttrsStopsAtError(st1, el, i + 1))
RECURSIVE bindAttrs(_, _, _)
bindAttrs(st, el, i) ==
  IF i > Len(st.attrs[el]) THEN st
  ELSE Then(bindAttr(st, el, i), LAMBDA st1 : bindAttrs(st1, el, i + 1))

BindElementNeverMarks(st, el) ==
  IF el \in st.marked THEN st
  ELSE bindAttrs([st EXCEPT !.didAddBinding = FALSE], el, 1)
\* createBindings: the body of elements.forEach for element el
bindElement(st, el) ==
  IF el \in st.marked THEN st
  ELSE Then(bindAttrs([st EXCEPT !.didAddBinding = FALSE], el, 1),
            LAMBDA st1 :
              IF ~st1.didAddBinding THEN [st1 EXCEPT !.skipped = @ \cup {el}]
              ELSE [st1 EXCEPT !.currentId = @ + 1, !.marked = @ \cup {el}])

\* createBindings(elements, ctx, logger)
RECURSIVE createBindings(_, _)
createBindings(st, elements) ==
  IF elements = <<>> THEN st
  ELSE Then(bindElement(st, Head(elements)),
            LAMBDA st1 : createBindings(st1, Tail(elements)))

\* ------------------------------------------------------------------ lists
\* sequences of nodes: x before the node y, q without x, y in place of x
InsertBefore(q, x, y) ==
  LET i == CHOOSE k \in 1..Len(q) : q[k] = y
  IN SubSeq(q, 1, i - 1) \o <<x>> \o SubSeq(q, i, Len(q))
Remove(q, x) == SelectSeq(q, LAMBDA y : y # x)
Replace(q, x, y) == [i \in 1..Len(q) |-> IF q[i] = x THEN y ELSE q[i]]

\* node instanceof HTMLElement: text nodes and comments have no attributes
IsElement(st, n) == n \in DOMAIN st.attrs

\* the element el was added below the observed root: the observers get a
\* record that lists it, delivered in a microtask
mutated(st, el) ==
  IF ~st.observing THEN st
  ELSE [st EXCEPT
          !.mutations = Append(@, <<el>>),
          !.microtasks = IF st.mutations = <<>>
                           THEN Append(@, [kind |-> "observe", of |-> "root"])
                           ELSE @]

\* isArrayReadSignal(signal)
isArrayReadSignal(st, signal) ==
  Readable(st, signal) /\ IsArray(get(st, signal))

\* the key of the signal of one index: `__indulgent_for_${name}_${index}`
Key(name, index) == "__indulgent_for_" \o name \o "_" \o ToString(index)

\* ctx[key] = computed(() => signal.get()[index])
indexSignal(st, signal, key, index) ==
  LET c == "computed" \o ToString(st.nextId + 1)
  IN [computed([st EXCEPT !.nextId = @ + 1], c,
               [kind |-> "index", src |-> signal, index |-> index])
        EXCEPT !.globalCtx = Ext(@, key, c)]

\* existingSignalRef !== reference: two structured clones are never the
\* same object, primitive values are compared by value
RefDiffers(existingSignalRef, reference) ==
  IF IsObj(reference) \/ IsArray(reference) THEN TRUE
  ELSE existingSignalRef # reference

\* manageArraySignals, update: the body of array.forEach for one index
arrayItem(st, f, item, index) ==
  LET key == Key(f.name, index)
      reference == IF f.path = <<>> THEN item
                   ELSE IF walk(item, f.path) = UNDEF THEN item
                   ELSE walk(item, f.path)
      existingSignal == st.globalCtx[key]
      existingSignalValue == get(st, existingSignal)
      existingSignalRef == IF f.path = <<>> THEN existingSignalValue
                           ELSE walk(existingSignalValue, f.path)
      has == key \in DOMAIN st.globalCtx
      differs == /\ has
                 /\ Readable(st, existingSignal)
                 /\ RefDiffers(existingSignalRef, reference)
  IN IF has /\ ~differs THEN st
     ELSE indexSignal(IF differs
                        THEN unregisterAllDependents(st, existingSignal)
                        ELSE st,
                      f.signal, key, index)

RECURSIVE arrayItems(_, _, _, _)
arrayItems(st, f, items, index) ==
  IF index >= Len(items) THEN st
  ELSE Then(arrayItem(st, f, items[index + 1], index),
            LAMBDA st1 : arrayItems(st1, f, items, index + 1))

\* key.match(/^__indulgent_for_${name}_(\d+)$/): the keys of the contexts
\* are the names of the page's objects and keys of indices of the one array
IsIndexKey(key) == key \notin {"a", "b", "r", "n", "w", "u", "items"}

ArrayUpdateKeepsKeys(st, l) ==
  LET f == st.closures[l]
      array == get(st, f.signal)
  IN IF ~IsArray(array) THEN st
     ELSE arrayItems(st, f, Items(array), 0)

\* manageArraySignals: the closure `update`; the keys of the indices from
\* array.length on are deleted from ctx, then each index is visited
arrayUpdate(st, l) ==
  LET f == st.closures[l]
      array == get(st, f.signal)
      old == {k \in DOMAIN st.globalCtx :
                /\ IsIndexKey(k)
                /\ k \notin {Key(f.name, i) : i \in 0..Len(Items(array)) - 1}}
  IN IF ~IsArray(array) THEN st
     ELSE arrayItems([st EXCEPT !.globalCtx =
                        [k \in DOMAIN @ \ old |-> @[k]]],
                     f, Items(array), 0)

\* manageArraySignals(ctx, name, signal, path, logger)
manageArraySignals(st, name, signal, path) ==
  LET l == "update" \o ToString(st.nextId + 1)
      st1 == [st EXCEPT !.nextId = @ + 1,
                        !.closures =
                           Ext(@, l, [kind |-> "arrayUpdate", name |-> name,
                                      signal |-> signal, path |-> path])]
  IN arrayUpdate(registerDependent(st1, signal, l), l)

\* replaceSignalNameInBindings for one element: each binding attribute
\* whose value starts with oldName is removed and set again with newName
RECURSIVE renameBindings(_, _, _, _, _)
renameBindings(st, el, bindings, oldName, newName) ==
  IF bindings = <<>> THEN st
  ELSE LET b == Head(bindings)
           st1 == IF b.name # oldName THEN st
                  ELSE [st EXCEPT !.attrs[el] =
                          Append(Remove(@, b), [b EXCEPT !.name = newName])]
       IN renameBindings(st1, el, Tail(bindings), oldName, newName)

\* replaceSignalNameInBindings(el, oldName, newName)
RECURSIVE replaceSignalNameInBindings(_, _, _, _)
replaceSignalNameInBindings(st, elements, oldName, newName) ==
  IF elements = <<>> THEN st
  ELSE replaceSignalNameInBindings(
         renameBindings(st, Head(elements), st.attrs[Head(elements)],
                        oldName, newName),
         Tail(elements), oldName, newName)

\* validateForAttr(ctx, forAttr, logger): the array signal, or "no signal"
validateForAttr(st, el) ==
  LET name == ForAttr(el).signalName
      signal == IF name \in DOMAIN st.globalCtx THEN validateSignal(st, name)
                ELSE NoSignal
  IN IF signal = NoSignal \/ ~isArrayReadSignal(st, signal) THEN NoSignal
     ELSE signal

\* the comment node that replaces the template el
Placeholder(el) == "for " \o el

\* handleForBindings, update: the clones that follow the placeholder
RECURSIVE existingElements(_, _, _)
existingElements(st, el, i) ==
  IF /\ i <= Len(st.nodes)
     /\ st.nodes[i] \in DOMAIN st.forMark
     /\ st.forMark[st.nodes[i]].for = el
    THEN <<st.nodes[i]>> \o existingElements(st, el, i + 1)
    ELSE <<>>

\* element.children
childrenOf(st, el) ==
  IF el \in DOMAIN st.cloneChildren THEN st.cloneChildren[el] ELSE Children(el)

\* el.querySelectorAll('*'): the descendants of el, in document order
RECURSIVE descendants(_, _)
descendants(st, els) ==
  IF els = <<>> THEN <<>>
  ELSE <<Head(els)>> \o descendants(st, childrenOf(st, Head(els)))
         \o descendants(st, Tail(els))

\* el.cloneNode(true): copies of the elements els and of their descendants,
\* with the attributes of the originals (data-indulgent-id among them) and
\* without their listeners; the copy of el is named el#id
RECURSIVE cloneNode(_, _, _)
cloneNode(st, els, id) ==
  IF els = <<>> THEN st
  ELSE LET el == Head(els)
           copy == el \o "#" \o ToString(id)
           kids == childrenOf(st, el)
           none == [i \in DOMAIN st.attrs[el] |-> 0]
       IN cloneNode(
            [st EXCEPT
               !.attrs = Ext(@, copy, st.attrs[el]),
               !.props = Ext(@, copy, st.props[el]),
               !.outBound = Ext(@, copy, none),
               !.inBound = Ext(@, copy, none),
               !.marked = IF el \in @ THEN @ \cup {copy} ELSE @,
               !.cloneChildren =
                  Ext(@, copy,
                      [i \in DOMAIN kids |-> kids[i] \o "#" \o ToString(id)])],
            Tail(els) \o kids, id)

\* handleForBindings, update: el.cloneNode(true) for one index, put in the
\* place of the existing clone of that index, or before nextSibling
cloneFor(st, f, existing, nextSibling, array, index) ==
  LET newElement == f.el \o "#" \o ToString(st.nextId + 1)
      placed == index < Len(existing) \/ nextSibling # ""
      st1 == [cloneNode(st, <<f.el>>, st.nextId + 1) EXCEPT
                !.nextId = @ + 1,
                !.forMark =
                   Ext(@, newElement,
                       [for |-> f.el, key |-> Key(f.signalName, index),
                        item |-> array[index + 1]]),
                !.nodes =
                   IF index < Len(existing)
                     THEN Replace(@, existing[index + 1], newElement)
                   ELSE IF nextSibling # ""
                     THEN InsertBefore(@, newElement, nextSibling)
                   ELSE @]
  IN IF placed THEN mutated(st1, newElement) ELSE st1

\* handleForBindings, update: "remove any excess existing elements"
removeExcess(st, existing, expected) ==
  [st EXCEPT !.nodes =
     SelectSeq(@, LAMBDA n : n \notin Range(existing) \ Range(expected))]

\* handleForBindings, update: "reorder elements to match expected order"
RECURSIVE reorder(_, _, _)
reorder(st, expected, idx) ==
  IF idx >= Len(expected) THEN st
  ELSE LET children == SelectSeq(st.nodes, LAMBDA n : IsElement(st, n))
           el == expected[idx + 1]
           st1 == IF idx < Len(children) /\ children[idx + 1] # el
                    THEN mutated([st EXCEPT !.nodes =
                                    InsertBefore(Remove(@, el), el,
                                                 children[idx + 1])], el)
                    ELSE st
       IN reorder(st1, expected, idx + 1)

\* handleForBindings, update: "set up bindings on the new elements"
RECURSIVE bindClones(_, _, _, _)
bindClones(st, f, expected, index) ==
  IF index >= Len(expected) THEN st
  ELSE LET element == expected[index + 1]
           elements == <<element>> \o childrenOf(st, element)
       IN Then(createBindings(
                 replaceSignalNameInBindings(st, elements, f.itemName,
                                             Key(f.signalName, index)),
                 elements),
               LAMBDA st1 : bindClones(st1, f, expected, index + 1))

\* handleForBindings, update: array.forEach, and what follows it
RECURSIVE cloneAll(_, _, _, _, _, _, _)
cloneAll(st, f, existing, nextSibling, array, index, expected) ==
  IF index >= Len(array)
    THEN bindClones(reorder(removeExcess(st, existing, expected),
                            expected, 0),
                    f, expected, 0)
    ELSE cloneAll(cloneFor(st, f, existing, nextSibling, array, index),
                  f, existing, nextSibling, array, index + 1,
                  Append(expected, f.el \o "#" \o ToString(st.nextId + 1)))

\* handleForBindings: the closure `update` of one template
forUpdate(st, l) ==
  LET f == st.closures[l]
      signal == IF f.signalName \in DOMAIN st.globalCtx
                  THEN validateSignal(st, f.signalName)
                  ELSE NoSignal
  IN IF signal = NoSignal \/ ~isArrayReadSignal(st, signal) THEN st
     ELSE Then(manageArraySignals(st, f.signalName, signal, f.trackerPath),
               LAMBDA st1 :
       LET first == 1 + CHOOSE k \in 1..Len(st1.nodes) :
                             st1.nodes[k] = Placeholder(f.el)
           existing == existingElements(st1, f.el, first)
           after == first + Len(existing)
           nextSibling == IF after <= Len(st1.nodes) THEN st1.nodes[after]
                          ELSE ""
       IN cloneAll(st1, f, existing, nextSibling,
                   Items(get(st, signal)), 0, <<>>))

\* handleForBindings: the body of forBoundElements.forEach for template el
handleFor(st, el) ==
  LET signal == validateForAttr(st, el)
      l == "update" \o ToString(st.nextId + 1)
      st1 == [st EXCEPT
                !.nextId = @ + 1,
                !.nodes = Replace(@, el, Placeholder(el)),
                !.closures =
                   Ext(@, l, [kind |-> "forUpdate", el |-> el,
                              itemName |-> ForAttr(el).itemName,
                              signalName |-> ForAttr(el).signalName,
                              trackerPath |-> ForAttr(el).trackerPath])]
  IN IF signal = NoSignal \/ el \notin Range(st.nodes) THEN st
     ELSE forUpdate(registerDependent(st1, signal, l), l)

\* handleForBindings(forBoundElements, ctx, root, logger)
RECURSIVE handleForBindings(_, _)
handleForBindings(st, forBoundElements) ==
  IF forBoundElements = <<>> THEN st
  ELSE Then(handleFor(st, Head(forBoundElements)),
            LAMBDA st1 : handleForBindings(st1, Tail(forBoundElements)))

\* root.querySelectorAll('*'): the elements below the root, in document order
querySelectorAll(st) ==
  SelectSeq(ElOrder, LAMBDA el : el \in st.inDom)
    \o descendants(st, SelectSeq(st.nodes, LAMBDA n : IsElement(st, n)))

\* Object.assign(globalCtx, ctx), each name of ctx holding the object of
\* that name
Assign(g, ctx) == [n \in ctx |-> n] @@ g

InitReplacesContext(st, ctx) ==
  LET st1 == [st EXCEPT !.globalCtx = [n \in ctx |-> n],
                        !.observing = TRUE,
                        !.observers = IF st.observing THEN @ ELSE @ + 1]
      initialElements ==
        SelectSeq(querySelectorAll(st), LAMBDA el : el \notin st.marked)
      forBoundElements ==
        SelectSeq(initialElements, LAMBDA el : el \in ForBound)
  IN createBindings(handleForBindings(st1, forBoundElements),
                    initialElements)
\* initIndulgent(ctx, { root })
initIndulgent(st, ctx) ==
  LET st1 == [st EXCEPT !.globalCtx = Assign(@, ctx),
                        !.observing = TRUE,
                        !.observers = IF st.observing THEN @ ELSE @ + 1]
      initialElements ==
        SelectSeq(querySelectorAll(st), LAMBDA el : el \notin st.marked)
      forBoundElements ==
        SelectSeq(initialElements, LAMBDA el : el \in ForBound)
  IN createBindings(handleForBindings(st1, forBoundElements),
                    initialElements)

\* the callback of one MutationObserver: mutations.forEach(...)
RECURSIVE observerCallback(_, _)
observerCallback(st, records) ==
  IF records = <<>> THEN st
  ELSE LET asArr == SelectSeq(Head(records), LAMBDA el : el \notin st.marked)
           forBoundElements == SelectSeq(asArr, LAMBDA el : el \in ForBound)
       IN Then(createBindings(handleForBindings(st, forBoundElements), asArr),
               LAMBDA st1 : observerCallback(st1, Tail(records)))

\* the host notifies each observer of the root with the queued records
RECURSIVE notify(_, _, _)
notify(st, records, n) ==
  IF n = 0 THEN st
  ELSE Then(observerCallback(st, records),
            LAMBDA st1 : notify(st1, records, n - 1))

\* the listeners 1..n that setInBinding added for attribute i of el, called
\* in the order in which they were added
RECURSIVE callInputs(_, _, _, _)
callInputs(st, el, i, k) ==
  IF k > st.inBound[el][i] THEN st
  ELSE Then(inputListener(st, el \o "." \o st.attrs[el][i].prop \o "@"
                                   \o ToString(k)),
            LAMBDA st1 : callInputs(st1, el, i, k + 1))

\* the DOM dispatches event ev on el: the listeners added for that event run
RECURSIVE dispatchEvent(_, _, _, _)
dispatchEvent(st, el, ev, i) ==
  IF i > Len(st.attrs[el]) THEN st
  ELSE LET b == st.attrs[el][i]
           mine == /\ b.prop \in DOMAIN inputBindings
                   /\ inputBindings[b.prop] = ev
       IN Then(IF mine THEN callInputs(st, el, i, 1) ELSE st,
               LAMBDA st1 : dispatchEvent(st1, el, ev, i + 1))

\* --------------------------------------------------- delivering the events
\* a listener of an emitter is called with the event
Invoke(st, s, l, v) ==
  LET st0 == IF s \in DOMAIN st.calls /\ l \in DOMAIN st.calls[s]
               THEN [st EXCEPT !.calls[s][l] = @ + 1, !.args[s][l] = v]
               ELSE st
      st1 == [st0 EXCEPT !.log = Append(@, l)]
  IN IF l \in DOMAIN st.dependencies THEN dependencyFn(st1, l)
     ELSE IF l \in Writer THEN setItem(st1, s, Stringify(v))
     ELSE IF l \in Setters THEN set(st1, "a", 1)
     ELSE IF l \in Throwers
       THEN [st1 EXCEPT !.thrown = TRUE, !.error = "thrown by listener"]
     ELSE IF l \notin DOMAIN st.closures THEN st1
     ELSE CASE st.closures[l].kind = "modifyProperty" ->
                 modifyProperty(st1, l, v)
            [] st.closures[l].kind = "forUpdate" -> forUpdate(st1, l)
            [] st.closures[l].kind = "arrayUpdate" -> arrayUpdate(st1, l)

\* processUpdates: for (const update of this.scheduledUpdates) from the
\* i-th entry on. The loop ends when a listener throws; after a clear() the
\* iterator goes on with the entries added since, from the first one
RECURSIVE Deliver(_, _, _)
Deliver(st, s, i) ==
  IF i > Len(st.scheduledUpdates[s]) THEN st
  ELSE Then(Invoke([st EXCEPT !.cleared = @ \ {s}], s,
                   st.scheduledUpdates[s][i], st.lastEvent[s]),
            LAMBDA st1 :
              IF st1.thrown THEN st1
              ELSE Deliver(st1, s, IF s \in st1.cleared THEN 1 ELSE i + 1))

\* NextMicroTaskEmitter.processUpdates()
processUpdates(st, s) ==
  IF st.lastEvent[s] = NO_EMIT_VALUE
    THEN [st EXCEPT !.error = "No event to process"]
    ELSE Then(Deliver([st EXCEPT !.thrown = FALSE], s, 1),
              LAMBDA st1 :
                IF st1.thrown THEN st1
                ELSE [st1 EXCEPT
                        !.scheduledUpdates[s] = <<>>,
                        !.updateQueued[s] = FALSE,
                        !.undelivered[s] =
                           @ /\ st.scheduledUpdates[s] = <<>>])

\* ------------------------------------------------------------ observation
ZeroRuns == [r \in Reactors |-> 0]
ZeroCalls == [s \in Sig |-> [l \in Lis |-> 0]]
NoArgs == [s \in Sig |-> [l \in Lis |-> NONE]]
ZeroSets == [s \in Plain \cup Stored |-> 0]
NoTouch == [s \in Sig |-> {}]

\* user code starts to run: from quiescence it begins a new burst
UserCode(st) ==
  IF st.microtasks = <<>>
    THEN [st EXCEPT !.error = "", !.returned = {},
                    !.mode = "sync", !.snap = st.lastReads,
                    !.runs = [r \in DOMAIN st.runs |-> 0],
                    !.calls = ZeroCalls, !.args = NoArgs,
                    !.sets = [s \in DOMAIN st.sets |-> 0],
                    !.touched = NoTouch,
                    !.cancelled = NoTouch, !.log = <<>>]
    ELSE [st EXCEPT !.error = "", !.returned = {},
                    !.mode = IF @ = "sync" THEN "sync" ELSE "mixed"]

\* the host takes the next callback off the microtask queue
Dequeue(st) ==
  [st EXCEPT !.microtasks = Tail(@), !.error = "", !.returned = {},
             !.mode = IF @ = "sync" THEN "drain" ELSE @]

\* a step: the call or callback, its object and its value argument; for
\* a call that takes a listener, the listener and whether the signal had it
\* as a dependent before the call
Step(name, obj, arg) ==
  [name |-> name, obj |-> obj, arg |-> arg, lis |-> "", was |-> FALSE]
RegStep(name, s, l) ==
  [name |-> name, obj |-> s, arg |-> NONE, lis |-> l,
   was |-> l \in dependents[s]]

\* the properties of an element that its attributes name
Props(el) == {Attrs(el)[i].prop : i \in 1..Len(Attrs(el))}

\* the properties of an element that the user can change
Inputs(el) == Props(el) \cap {"value", "checked"}

\* ------------------------------------------------------------------- Init
Init ==
  /\ value \in [Sig -> Val \cup {UNDEF}]
  /\ \A s \in Plain : value[s] \in Val
  /\ \A c \in Sig \ Plain : value[c] = UNDEF
  /\ dependents = [s \in Sig |-> {}]
  /\ listeners = [s \in Sig |-> <<>>]
  /\ scheduledUpdates = [s \in Sig |-> <<>>]
  /\ updateQueued = [s \in Sig |-> FALSE]
  /\ lastEvent = [s \in Sig |-> NO_EMIT_VALUE]
  /\ microtasks = <<>>
  /\ dependencies = [r \in Reactors |-> {}]
  /\ scheduled = [r \in Reactors |-> FALSE]
  /\ created = [r \in Reactors \cup Stored |-> FALSE]
  /\ error = ""
  /\ reaction = ""
  /\ storage = <<>>
  /\ inDom = {}
  /\ marked = {}
  /\ outBound = [el \in Range(ElOrder) \cup ListEls |->
                   [i \in 1..Len(Attrs(el)) |-> 0]]
  /\ inBound = [el \in Range(ElOrder) \cup ListEls |->
                  [i \in 1..Len(Attrs(el)) |-> 0]]
  /\ observing = FALSE
  /\ observers = 0
  /\ globalCtx = <<>>
  /\ attrs = [el \in Range(ElOrder) \cup ListEls |-> Attrs(el)]
  /\ props = [el \in Range(ElOrder) \cup ListEls |->
                [p \in Props(el) |-> NONE]]
  /\ closures = <<>>
  /\ computeFns = <<>>
  /\ nextId = 0
  /\ skipped = {}
  /\ nodes = <<>>
  /\ forMark = <<>>
  /\ cloneChildren = <<>>
  /\ mutations = <<>>
  /\ currentId = 0
  /\ inputSets = 0
  /\ inits = 0
  /\ returned = {}
  /\ lastReads = [r \in Reactors |-> <<>>]
  /\ dropped = [r \in Reactors |-> {}]
  /\ undelivered = [s \in Sig |-> FALSE]
  /\ mode = "sync"
  /\ snap = lastReads
  /\ runs = ZeroRuns
  /\ calls = ZeroCalls
  /\ args = NoArgs
  /\ sets = ZeroSets
  /\ touched = NoTouch
  /\ cancelled = NoTouch
  /\ log = <<>>
  /\ regOrder = [s \in Sig |-> <<>>]
  /\ op = Step("init", "", NONE)
  /\ ops = 0
  /\ regs = 0

\* a signal object exists: plain signals from the start, a computed's
\* internal signal once the computed is constructed
Exists(s) == IF s \in DOMAIN created THEN created[s] ELSE s \in DOMAIN value

\* ----------------------------------------------------- calls of user code
SetFlushesNow(s, v) ==
  /\ ops < MaxOps
  /\ LET st == set(UserCode(Cur), s, v)
         st1 == IF st.value[s] # value[s] THEN processUpdates(st, s) ELSE st
     IN Becomes([st1 EXCEPT !.sets[s] =
                   IF st.value[s] # value[s] THEN @ + 1 ELSE @])
  /\ op' = Step("set", s, v)
  /\ ops' = ops + 1
  /\ UNCHANGED regs
\* s.set(v)
Set(s, v) ==
  /\ ops < MaxOps
  /\ Exists(s)
  /\ LET st == set(UserCode(Cur), s, v)
     IN Becomes([st EXCEPT !.sets[s] =
                   IF st.value[s] # value[s] THEN @ + 1 ELSE @])
  /\ op' = Step("set", s, v)
  /\ ops' = ops + 1
  /\ UNCHANGED regs

\* the callbacks the program passes to update
Cbs == {[v \in Val |-> 1 - v], [v \in Val |-> 1]}

\* s.update(cb)
Update(s, cb) ==
  /\ ops < MaxOps
  /\ Exists(s)
  /\ LET st == update(UserCode(Cur), s, cb)
     IN Becomes([st EXCEPT !.sets[s] =
                   IF st.value[s] # value[s] THEN @ + 1 ELSE @])
  /\ op' = Step("update", s, cb[value[s]])
  /\ ops' = ops + 1
  /\ UNCHANGED regs

\* an earlier session of the program left an entry in the storage
Preload(key, str) ==
  /\ ~created[key]
  /\ ~HasItem(Cur, key)
  /\ Becomes(setItem(UserCode(Cur), key, str))
  /\ op' = Step("setItem", key, NONE)
  /\ UNCHANGED <<ops, regs>>

\* s = storeSignal(key, initialValue)
NewStore(key, initialValue) ==
  /\ ~created[key]
  /\ Becomes(storeSignal(UserCode(Cur), key, initialValue))
  /\ op' = Step("storeSignal", key, initialValue)
  /\ UNCHANGED <<ops, regs>>

\* initIndulgent(ctx, { root }) called by the page
InitIndulgent(ctx) ==
  /\ inits < MaxInits
  /\ Becomes([initIndulgent(UserCode(Cur), ctx) EXCEPT !.inits = @ + 1])
  /\ op' = Step("initIndulgent", "root", Cardinality(ctx))
  /\ UNCHANGED <<ops, regs>>

\* the inserted node el and its descendants, in document order
Subtree(el) == <<el>> \o Children(el)

\* the page appends the element el, with its children, below the root; the
\* installed observers get a record that lists el, delivered in a microtask
Insert(el) ==
  /\ el \notin inDom
  /\ LET st == UserCode(Cur)
     IN Becomes([st EXCEPT
          !.inDom = @ \cup Range(Subtree(el)),
          !.mutations = IF st.observing THEN Append(@, <<el>>) ELSE @,
          !.microtasks = IF st.observing /\ st.mutations = <<>>
                           THEN Append(@, [kind |-> "observe", of |-> "root"])
                           ELSE @])
  /\ op' = Step("append", el, NONE)
  /\ UNCHANGED <<ops, regs>>

\* the microtask that delivers the queued mutation records
Observe ==
  /\ microtasks # <<>>
  /\ Head(microtasks) = [kind |-> "observe", of |-> "root"]
  /\ LET st == Dequeue(Cur)
     IN Becomes(notify([st EXCEPT !.mutations = <<>>], st.mutations,
                       st.observers))
  /\ op' = Step("observe", "root", NONE)
  /\ UNCHANGED <<ops, regs>>

\* the user changes the property p of the element el to v: the DOM sets
\* the property and dispatches the event of that property
Event(el, p, v) ==
  /\ ops < MaxOps
  /\ el \in inDom
  /\ Becomes(dispatchEvent([UserCode(Cur) EXCEPT !.inputSets = 0,
                                                 !.props[el][p] = v],
                           el, inputBindings[p], 1))
  /\ op' = [Step("event", el, v) EXCEPT !.lis = inputBindings[p]]
  /\ ops' = ops + 1
  /\ UNCHANGED regs

\* s.registerDependent(l), l a callback of user code
Register(s, l) ==
  /\ regs < MaxRegs
  /\ Exists(s)
  /\ LET st == registerDependent(UserCode(Cur), s, l)
     IN Becomes([st EXCEPT !.touched[s] = @ \cup {l},
                           !.regOrder[s] = IF l \in Range(@) THEN @
                                           ELSE Append(@, l)])
  /\ op' = RegStep("registerDependent", s, l)
  /\ regs' = regs + 1
  /\ UNCHANGED ops

\* s.unregisterDependent(l)
Unregister(s, l) ==
  /\ regs < MaxRegs
  /\ Exists(s)
  /\ LET st == unregisterDependent(UserCode(Cur), s, l)
     IN Becomes([st EXCEPT !.touched[s] = @ \cup {l},
                           !.cancelled[s] =
                              @ \cup ({l} \cap Range(scheduledUpdates[s])),
                           !.regOrder[s] = SelectSeq(@, LAMBDA x : x # l)])
  /\ op' = RegStep("unregisterDependent", s, l)
  /\ regs' = regs + 1
  /\ UNCHANGED ops

\* s.unregisterAllDependents()
UnregisterAll(s) ==
  /\ regs < MaxRegs
  /\ Exists(s)
  /\ LET st == unregisterAllDependents(UserCode(Cur), s)
     IN Becomes([st EXCEPT !.touched[s] = @ \cup dependents[s],
                           !.cancelled[s] = @ \cup Range(scheduledUpdates[s]),
                           !.regOrder[s] = <<>>])
  /\ op' = Step("unregisterAllDependents", s, NONE)
  /\ regs' = regs + 1
  /\ UNCHANGED ops

\* c = computed(computeFn): the constructor
NewComputed(c) ==
  /\ ~created[c]
  /\ \A u \in Upstream(c) : created[u]
  /\ Becomes(Construct(UserCode(Cur), c))
  /\ op' = Step("computed", c, NONE)
  /\ UNCHANGED <<ops, regs>>

\* e = effect(effectFn): the constructor
NewEffect(e) ==
  /\ ~created[e]
  /\ \A u \in Upstream(e) : created[u]
  /\ Becomes(Construct(UserCode(Cur), e))
  /\ op' = Step("effect", e, NONE)
  /\ UNCHANGED <<ops, regs>>

\* ------------------------------------------------------ microtask callbacks
\* the callback queued by emit: () => this.processUpdates()
ProcessUpdates(s) ==
  /\ microtasks # <<>>
  /\ Head(microtasks) = [kind |-> "processUpdates", of |-> s]
  /\ Becomes(processUpdates([Dequeue(Cur) EXCEPT !.log = <<>>], s))
  /\ op' = Step("processUpdates", s, lastEvent[s])
  /\ UNCHANGED <<ops, regs>>

\* the callback queued by a computed's dependencyFn
Recompute(c) ==
  /\ microtasks # <<>>
  /\ Head(microtasks) = [kind |-> "track", of |-> c]
  /\ Becomes(ComputedTrack([Dequeue(Cur) EXCEPT !.scheduled[c] = FALSE], c))
  /\ op' = Step("recompute", c, NONE)
  /\ UNCHANGED <<ops, regs>>

\* the callback queued by an effect's dependencyFn
Rerun(e) ==
  /\ microtasks # <<>>
  /\ Head(microtasks) = [kind |-> "track", of |-> e]
  /\ Becomes(EffectTrack([Dequeue(Cur) EXCEPT !.scheduled[e] = FALSE], e))
  /\ op' = Step("rerun", e, NONE)
  /\ UNCHANGED <<ops, regs>>

\* ---------------------------------------------------------- specifications
\* plain signals with callbacks of user code as dependents
\* (at most MaxOps calls of user code in all)
Next ==
  \/ ops + regs < MaxOps /\ \E s \in Plain, v \in Val : Set(s, v)
  \/ ops + regs < MaxOps /\ \E s \in Plain, l \in Mock : Register(s, l)
  \/ ops + regs < MaxOps /\ \E s \in Plain, l \in Mock : Unregister(s, l)
  \/ ops + regs < MaxOps /\ \E s \in Plain : UnregisterAll(s)
  \/ \E s \in Plain : ProcessUpdates(s)

Spec == Init /\ [][Next]_vars

\* one plain signal with callbacks of user code as dependents
NextOne ==
  \/ \E v \in Val : Set("a", v)
  \/ \E l \in Mock : Register("a", l)
  \/ \E l \in Mock : Unregister("a", l)
  \/ UnregisterAll("a")
  \/ ProcessUpdates("a")

SpecOne == Init /\ [][NextOne]_vars

\* a program whose listeners of a are mock callbacks, a callback that sets
\* a, and a callback that throws
NextCallbacks ==
  \/ \E v \in Val : Set("a", v)
  \/ \E l \in Mock \cup Setters \cup Throwers : Register("a", l)
  \/ ProcessUpdates("a")

SpecCallbacks == Init /\ [][NextCallbacks]_vars

\* plain signals a, b with the computed signals c1, c2
NextComputed ==
  \/ \E s \in Plain, v \in Val : Set(s, v)
  \/ \E c \in Computeds : NewComputed(c)
  \/ \E s \in Sig : ProcessUpdates(s)
  \/ \E c \in Computeds : Recompute(c)

SpecComputed == Init /\ [][NextComputed]_vars

\* plain signals a, b, the computed signal c1 and the effects e1, e2
NextEffect ==
  \/ \E s \in Plain, v \in Val : Set(s, v)
  \/ NewComputed("c1")
  \/ \E e \in Effects : NewEffect(e)
  \/ \E s \in Plain \cup {"c1"} : ProcessUpdates(s)
  \/ Recompute("c1")
  \/ \E e \in Effects : Rerun(e)

SpecEffect == Init /\ [][NextEffect]_vars

\* plain signals a, b with the effect eo, which constructs the computed ci
\* in its callback, and the computed co, which constructs the effect ei
NextNested ==
  \/ \E s \in Plain, v \in Val : Set(s, v)
  \/ NewEffect("eo")
  \/ NewComputed("co")
  \/ \E s \in Plain \cup NestedComputeds : ProcessUpdates(s)
  \/ \E c \in NestedComputeds : Recompute(c)
  \/ \E e \in NestedEffects : Rerun(e)

SpecNested == Init /\ [][NextNested]_vars

\* one storage-backed signal with callbacks of user code as dependents
NextStore ==
  \/ \E str \in {"0", "1", "{"} : Preload("k", str)
  \/ \E v \in Val : NewStore("k", v)
  \/ \E v \in Val : Set("k", v)
  \/ \E cb \in Cbs : Update("k", cb)
  \/ Register("k", "L1")
  \/ Unregister("k", "L1")
  \/ UnregisterAll("k")
  \/ ProcessUpdates("k")

SpecStore == Init /\ [][NextStore]_vars

\* plain signals a, b and the effect er, which reads a twice
NextRepeat ==
  \/ \E s \in Plain, v \in Val : Set(s, v)
  \/ NewEffect("er")
  \/ \E s \in Plain : ProcessUpdates(s)
  \/ Rerun("er")

SpecRepeat == Init /\ [][NextRepeat]_vars

\* the state of a page that has created the signals DOMAIN vals, with the
\* values vals, and has not called initIndulgent yet; ns are the child
\* nodes of the page's list
InitNodes(vals, ns) ==
  /\ value = vals
  /\ dependents = [s \in DOMAIN vals |-> {}]
  /\ listeners = [s \in DOMAIN vals |-> <<>>]
  /\ scheduledUpdates = [s \in DOMAIN vals |-> <<>>]
  /\ updateQueued = [s \in DOMAIN vals |-> FALSE]
  /\ lastEvent = [s \in DOMAIN vals |-> NO_EMIT_VALUE]
  /\ microtasks = <<>>
  /\ dependencies = <<>>
  /\ scheduled = <<>>
  /\ created = <<>>
  /\ error = ""
  /\ reaction = ""
  /\ storage = <<>>
  /\ inDom = {}
  /\ marked = {}
  /\ outBound = [el \in Range(ElOrder) \cup ListEls |->
                   [i \in 1..Len(Attrs(el)) |-> 0]]
  /\ inBound = [el \in Range(ElOrder) \cup ListEls |->
                  [i \in 1..Len(Attrs(el)) |-> 0]]
  /\ observing = FALSE
  /\ observers = 0
  /\ globalCtx = <<>>
  /\ attrs = [el \in Range(ElOrder) \cup ListEls |-> Attrs(el)]
  /\ props = [el \in Range(ElOrder) \cup ListEls |->
                [p \in Props(el) |-> NONE]]
  /\ closures = <<>>
  /\ computeFns = <<>>
  /\ nextId = 0
  /\ skipped = {}
  /\ nodes = ns
  /\ forMark = <<>>
  /\ cloneChildren = <<>>
  /\ mutations = <<>>
  /\ currentId = 0
  /\ inputSets = 0
  /\ inits = 0
  /\ returned = {}
  /\ lastReads = <<>>
  /\ dropped = <<>>
  /\ undelivered = [s \in DOMAIN vals |-> FALSE]
  /\ mode = "sync"
  /\ snap = <<>>
  /\ runs = <<>>
  /\ calls = ZeroCalls
  /\ args = NoArgs
  /\ sets = [s \in DOMAIN vals |-> 0]
  /\ touched = NoTouch
  /\ cancelled = NoTouch
  /\ log = <<>>
  /\ regOrder = [s \in DOMAIN vals |-> <<>>]
  /\ op = Step("init", "", NONE)
  /\ ops = 0
  /\ regs = 0

\* a page without a list
InitPage(vals) == InitNodes(vals, <<>>)

\* a page with the elements x1, x2, x3, initIndulgent calls, insertions and
\* input events
NextDom ==
  \/ \E ctx \in Ctxs : InitIndulgent(ctx)
  \/ \E el \in El : Insert(el)
  \/ Observe
  \/ \E el \in El, v \in Val : \E p \in Inputs(el) : Event(el, p, v)
  \/ \E s \in Plain : ProcessUpdates(s)

\* the page creates its signals with the value 0
InitDom == InitPage([a |-> 0, b |-> 0, r |-> 0])

SpecDom == InitDom /\ [][NextDom]_vars

\* the code of the page runs in tasks: a task starts when no microtask is
\* pending, and the microtasks it queues run after it
InTask == microtasks = <<>> \/ mode = "sync"

\* a page with the elements x1 and x2: initIndulgent calls and insertions
\* in tasks, set calls of the page's code and input events at any time
NextBind ==
  \/ InTask /\ InitIndulgent({"a", "b", "r", "n", "w"})
  \/ InTask /\ \E el \in {"x1", "x2"} : Insert(el)
  \/ Observe
  \/ \E el \in {"x1", "x2"}, v \in Val : \E p \in Inputs(el) : Event(el, p, v)
  \/ \E s \in Plain, v \in Val : Set(s, v)
  \/ \E s \in Plain : ProcessUpdates(s)

SpecBind == InitDom /\ [][NextBind]_vars

\* a page with the element x1 and the element y1, which has the child y2:
\* initIndulgent calls, insertions, set calls of the page's code
NextTree ==
  \/ \E ctx \in Ctxs : InitIndulgent(ctx)
  \/ \E el \in {"x1", "y1"} : Insert(el)
  \/ Observe
  \/ \E v \in Val : Set("a", v)
  \/ ProcessUpdates("a")

SpecTree == InitDom /\ [][NextTree]_vars

\* the values of the signal u: { id: 1, name: 0 }, { id: 1, name: 1 } and
\* { id: 2, name: 1 }
Users == {Obj(1, 0), Obj(1, 1), Obj(2, 1)}

\* a page with the elements z1 and z2, bound to the dotted name u.name:
\* initIndulgent calls, insertions, input events, the page's code replaces u
NextPath ==
  \/ InTask /\ InitIndulgent({"u"})
  \/ InTask /\ \E el \in Dotted : Insert(el)
  \/ Observe
  \/ /\ InTask
     /\ \E el \in Dotted, v \in Val : \E p \in Inputs(el) : Event(el, p, v)
  \/ InTask /\ \E v \in Users : Set("u", v)
  \/ \E s \in DOMAIN value : ProcessUpdates(s)
  \/ \E c \in DOMAIN computeFns : Recompute(c)

\* the page creates u = signal({ id: 1, name: 1 })
InitPath == InitPage([u |-> Obj(1, 1)])

SpecPath == InitPath /\ [][NextPath]_vars

\* the arrays the list page stores in items: [], [{1,0}], [{1,0},{2,0}],
\* [{1,1},{2,0}] and [{2,0},{1,0}], an item {id, name}
Arrays ==
  {Arr(<<>>), Arr(<<Obj(1, 0)>>), Arr(<<Obj(1, 0), Obj(2, 0)>>),
   Arr(<<Obj(1, 1), Obj(2, 0)>>), Arr(<<Obj(2, 0), Obj(1, 0)>>)}

\* the child nodes of the list of the page, for the template t: the
\* template between two text nodes, after an element, and as the last node
Layouts(t) == {<<"t1", t, "t2">>, <<"h", t, "t2">>, <<"t1", t>>}

\* the context objects the list page passes to initIndulgent; the second
\* one has a key of its own of the form of an index key
ListCtxs == {{"items"}, {"items", Key("items", 2)}}

\* items.set(v) in a task of the page: the microtasks of the task before
\* have all run
SetArray(v) ==
  /\ microtasks = <<>>
  /\ Set("items", v)

\* a page with a list: initIndulgent calls, and the page's code replaces
\* the array
NextFor ==
  \/ InitIndulgent({"items"})
  \/ \E v \in Arrays : SetArray(v)
  \/ Observe
  \/ \E s \in DOMAIN value : ProcessUpdates(s)
  \/ \E c \in DOMAIN computeFns : Recompute(c)

\* the page creates items = signal([{1,0},{2,0}]) and has one template
InitFor ==
  \E t \in Templates : \E ns \in Layouts(t) :
     InitNodes([items |-> Arr(<<Obj(1, 0), Obj(2, 0)>>)], ns)

SpecFor == InitFor /\ [][NextFor]_vars

\* the list page with the template p, whose tasks call initIndulgent with
\* either context object and make the array longer or shorter
NextKeys ==
  \/ \E ctx \in ListCtxs : InTask /\ InitIndulgent(ctx)
  \/ \E n \in 0..2 : SetArray(Arr(SubSeq(<<Obj(1, 0), Obj(2, 0)>>, 1, n)))
  \/ Observe
  \/ \E s \in DOMAIN value : ProcessUpdates(s)
  \/ \E c \in DOMAIN computeFns : Recompute(c)

InitKeys == InitNodes([items |-> Arr(<<Obj(1, 0), Obj(2, 0)>>)],
                      <<"t1", "p", "t2">>)

SpecKeys == InitKeys /\ [][NextKeys]_vars

\* the list page with the template d, whose clones have a child and a
\* grandchild that use the item
InitDeep ==
  \E ns \in Layouts("d") :
     InitNodes([items |-> Arr(<<Obj(1, 0), Obj(2, 0)>>)], ns)

SpecDeep == InitDeep /\ [][NextFor]_vars

\* the list page with the template m, which has a binding of its own to a
\* signal of the context
InitOwn ==
  \E ns \in Layouts("m") :
     InitNodes([items |-> Arr(<<Obj(1, 0), Obj(2, 0)>>)], ns)

SpecOwn == InitOwn /\ [][NextFor]_vars

\* ------------------------------------------------------- reading the steps
\* the signals on which the dependencyFn of reactor r is registered
RegisteredOn(r) == {s \in Sig : r \in Range(listeners[s])}

\* this step is the call s.set(v) of user code
IsSet(s, v) == ops' = ops + 1 /\ op' = Step("set", s, v)

\* this step is a callback taken off the microtask queue
IsMicrotask(kind, of) ==
  /\ ops' = ops
  /\ regs' = regs
  /\ created' = created
  /\ microtasks # <<>>
  /\ microtasks' # microtasks
  /\ Head(microtasks) = [kind |-> kind, of |-> of]

\* the flush callbacks of signal s that wait in the microtask queue
FlushesQueued(s) ==
  Cardinality({i \in 1..Len(microtasks) :
                 microtasks[i] = [kind |-> "processUpdates", of |-> s]})

\* the position of x in the sequence q
Pos(q, x) == CHOOSE i \in 1..Len(q) : q[i] = x

\* the burst that began at quiescence has drained with no user code between
Drained == mode = "drain" /\ microtasks = <<>>

\* ------------------------------------------------------------------ claims

\* C1: after every recomputation of a computed signal, the signals on which
\* its recompute callback is registered are exactly the signals read during
\* that recomputation, also when a signal is read, then not read, then read
\* again.
C1_SubscribedEqualsRead ==
  \A c \in Computeds :
    created[c] => RegisteredOn(c) = Range(lastReads[c])

\* C2: a set(v) with v equal to the current value is a no-op: value,
\* pending value and scheduled listeners are unchanged, no flush is
\* scheduled and nothing runs because of it.
C2_EqualSetIsNoOp ==
  [][\A s \in Plain, v \in Val :
       (IsSet(s, v) /\ value[s] = v) =>
          /\ UNCHANGED prog
          /\ UNCHANGED <<lastReads, undelivered>>
          /\ runs' = UserCode(Cur).runs
          /\ calls' = UserCode(Cur).calls]_vars

\* C2 witness: the latest step was a set that left its signal, which has a
\* dependent, without a pending flush.
C2_Witness ==
  /\ op.name = "set"
  /\ ~updateQueued[op.obj]
  /\ dependents[op.obj] # {}
  /\ value[op.obj] = op.arg

\* C3: k >= 1 value-changing sets on one signal with no flush in between
\* invoke each listener registered at that time exactly once, with the
\* value of the last set.
C3_OneCallWithLastValue ==
  Drained =>
    \A s \in Plain : \A l \in dependents[s] \ touched[s] :
      sets[s] >= 1 => calls[s][l] = 1 /\ args[s][l] = value[s]

\* C3 witness: two sets on one signal have drained to a registered listener.
C3_Witness ==
  /\ Drained
  /\ \E s \in Plain : \E l \in dependents[s] \ touched[s] :
       sets[s] >= 2 /\ calls[s][l] = 1

\* C4: once the latest recomputation of a computed signal did not read a
\* signal b it had read before, neither a later set of b nor a flush of b,
\* including a flush that was already pending when b was dropped, calls the
\* computed's dependencyFn or makes it recompute.
C4_DroppedSignalNeverNotifies ==
  [][\A c \in Computeds : \A b \in dropped[c] \ Range(lastReads[c]) :
       /\ IsMicrotask("processUpdates", b) =>
            /\ calls'[b][c] = calls[b][c]
            /\ scheduled'[c] = scheduled[c]
            /\ runs'[c] = runs[c]
       /\ (\E v \in Val : IsSet(b, v)) =>
            /\ c \notin Range(scheduledUpdates'[b])
            /\ scheduled'[c] = scheduled[c]
            /\ runs'[c] = UserCode(Cur).runs[c]]_vars

\* C4 witness: c1 has just recomputed without reading b, which it had read
\* before, while a changed value of b is waiting for its flush.
C4_Witness ==
  /\ op = Step("recompute", "c1", NONE)
  /\ "b" \in dropped["c1"] \ Range(lastReads["c1"])
  /\ updateQueued["b"]
  /\ undelivered["b"]

\* C5: after every run of an effect's callback, the signals on which its
\* re-run callback is registered are exactly the signals read during that
\* run, also when a signal is dropped in one run and read again later.
C5_EffectSubscribedEqualsRead ==
  \A e \in Effects :
    created[e] =>
      /\ RegisteredOn(e) = Range(lastReads[e])
      /\ dependencies[e] = Range(lastReads[e])

\* C5 witness: an effect reads, and is registered on, a signal that it had
\* dropped in an earlier run.
C5_Witness ==
  \E e \in Effects : \E s \in dropped[e] :
    s \in Range(lastReads[e]) /\ e \in Range(listeners[s])

\* C6: once all pending microtasks have run, every computed signal's value
\* is its compute function evaluated on the current values of the signals.
C6_ComputedInSync ==
  microtasks = <<>> =>
    \A c \in Computeds : created[c] => value[c] = computeFn(c, value)

\* C7: when two or more plain signals read directly by a computed signal
\* are set in one synchronous run, its compute function does not run inside
\* the set calls and has run exactly once when the flush is over.
C7_OneRecomputation ==
  \A c \in Computeds :
    Cardinality({s \in Plain \cap Range(snap[c]) : sets[s] >= 1}) >= 2 =>
      /\ mode = "sync" => runs[c] = 0
      /\ Drained => runs[c] = 1

\* C8: when an effect has read several signals and any number of them are
\* set in one synchronous run, the effect callback has run exactly once when
\* the flush is over.
C8_OneRerun ==
  \A e \in Effects :
    /\ Len(snap[e]) >= 2
    /\ \E s \in Plain \cap Range(snap[e]) : sets[s] >= 1
    => /\ mode = "sync" => runs[e] = 0
       /\ Drained => runs[e] = 1

\* C9: constructing an effect runs its callback exactly once before the
\* constructor returns; afterwards the callback runs only in a microtask
\* that its dependencyFn queued, and dependencyFn is called only by the
\* flush of a signal that was read in the effect's latest run and has been
\* set to a changed value.
C9_EffectRunsOnceThenOnChange ==
  [][\A e \in Effects :
       /\ (created'[e] /\ ~created[e]) => runs'[e] = 1 /\ ~scheduled'[e]
       /\ (created[e] /\ runs'[e] > runs[e]) =>
            IsMicrotask("track", e) /\ scheduled[e]
       /\ (scheduled'[e] /\ ~scheduled[e]) =>
            \E s \in Range(lastReads[e]) :
              IsMicrotask("processUpdates", s) /\ undelivered[s]]_vars

\* C9 witness: an effect was constructed and has run again in a microtask.
C9_Witness ==
  \E e \in Effects :
    created[e] /\ op = Step("rerun", e, NONE) /\ runs[e] >= 1

\* C10: a recomputation of a computed signal that yields a value equal to
\* its previous value emits nothing: no flush of the computed is queued, no
\* dependent is scheduled or called, no other reactor runs.
C10_EqualRecomputeIsSilent ==
  [][\A c \in Computeds :
       (IsMicrotask("track", c) /\ computeFn(c, value) = value[c]) =>
          /\ microtasks' = Tail(microtasks)
          /\ scheduledUpdates'[c] = scheduledUpdates[c]
          /\ lastEvent'[c] = lastEvent[c]
          /\ updateQueued'[c] = updateQueued[c]
          /\ calls'[c] = calls[c]
          /\ \A r \in Reactors \ {c} :
               runs'[r] = runs[r] /\ scheduled'[r] = scheduled[r]]_vars

\* C10 witness: a computed signal with a dependent has just recomputed and
\* no flush of it is pending.
C10_Witness ==
  \E c \in Computeds :
    /\ op = Step("recompute", c, NONE)
    /\ dependents[c] # {}
    /\ ~updateQueued[c]

\* C11: no listener, compute function or effect callback is invoked inside
\* the set call, or inside the recomputation whose set emits, that triggers
\* it: across such a step every invocation count and every run count of
\* another callback is unchanged, the work waits in the microtask queue.
C11_NothingRunsInsideTheCall ==
  [][/\ (\E s \in Plain, v \in Val : IsSet(s, v)) =>
          /\ runs' = UserCode(Cur).runs
          /\ calls' = UserCode(Cur).calls
     /\ \A c \in Computeds : IsMicrotask("track", c) =>
          /\ calls' = calls
          /\ \A r \in Reactors \ {c} : runs'[r] = runs[r]]_vars

\* C11 witness: a set has just scheduled the dependencyFn of a reactor that
\* has neither been called nor run.
C11_Witness ==
  /\ op.name = "set"
  /\ undelivered[op.obj]
  /\ \E r \in Reactors :
       /\ r \in Range(scheduledUpdates[op.obj])
       /\ calls[op.obj][r] = 0
       /\ runs[r] = 0

C13_UnregisteredIsNotCalled ==
  [][\A s \in Plain : \A l \in Mock \ Range(regOrder[s]) :
       IsMicrotask("processUpdates", s) => calls'[s][l] = calls[s][l]]_vars

\* C13 witness: a flush has run after a listener was unregistered while it
\* was scheduled, and the listener was not called.
C13_Witness ==
  /\ op.name = "processUpdates"
  /\ \E l \in cancelled[op.obj] \ Range(regOrder[op.obj]) :
       calls[op.obj][l] = 0

\* C14: a listener registered after an emit and before the flush of that
\* emit, with no further emit in between (it is a listener, a flush is
\* pending and it is not among the scheduled ones), is called by that flush
\* with the pending value.
C14_LateListenerIsCalled ==
  [][\A s \in Plain :
       \A l \in Range(listeners[s]) \ Range(scheduledUpdates[s]) :
         (IsMicrotask("processUpdates", s) /\ updateQueued[s]) =>
            /\ calls'[s][l] = calls[s][l] + 1
            /\ args'[s][l] = lastEvent[s]]_vars

\* C15: at any time at most one flush callback of an emitter waits in the
\* microtask queue: an emit made while a flush is pending queues none.
C15_OneFlushOutstanding ==
  \A s \in Sig : FlushesQueued(s) <= 1

\* C16: within one flush of a signal the listeners are called in the order
\* in which they were registered, a listener that was unregistered and
\* registered again counting from its latest registration.
C16_CalledInRegistrationOrder ==
  [][\A s \in Plain :
       IsMicrotask("processUpdates", s) =>
         /\ Range(log') \subseteq Range(regOrder[s])
         /\ \A i, j \in 1..Len(log') :
              i < j => Pos(regOrder[s], log'[i]) < Pos(regOrder[s], log'[j])]_vars

\* C16 witness: a flush has called L2 and then L1, where L2 was registered
\* throughout the burst and L1 was unregistered while scheduled and
\* registered again.
C16_Witness ==
  /\ op.name = "processUpdates"
  /\ log = <<"L2", "L1">>
  /\ "L1" \in cancelled[op.obj]
  /\ "L2" \notin touched[op.obj]

\* C17: registerDependent of a listener that is already a dependent leaves
\* the whole state unchanged; a flush calls each listener at most once; and
\* after one unregisterDependent the listener is neither a dependent nor a
\* listener nor scheduled, however often it had been registered.
C17_RegisterIsIdempotent ==
  [][\A s \in Plain : \A l \in Mock :
       /\ (op'.name = "registerDependent" /\ regs' = regs + 1 /\ op'.obj = s
           /\ op'.lis = l /\ l \in dependents[s]) =>
             UNCHANGED prog
       /\ IsMicrotask("processUpdates", s) => calls'[s][l] <= calls[s][l] + 1
       /\ (op'.name = "unregisterDependent" /\ regs' = regs + 1
           /\ op'.obj = s /\ op'.lis = l) =>
             /\ l \notin dependents'[s]
             /\ l \notin Range(listeners'[s])
             /\ l \notin Range(scheduledUpdates'[s])]_vars

\* C17 witness: a listener that was a dependent, and scheduled, has just
\* been registered again and is a listener once.
C17_Witness ==
  /\ op.name = "registerDependent"
  /\ op.was
  /\ op.lis \in Range(scheduledUpdates[op.obj])
  /\ listeners[op.obj] = <<op.lis>>

\* C18: a tracked computation started inside another one records its reads
\* only in its own list, and when it ends, normally or by throwing, the
\* tracker that was active before it is active again: every track() call
\* that returns gives exactly the reads of its own callback, also the reads
\* made after a nested construction, and after every step no tracker is
\* active.
C18_NestedTrackingComposes ==
  [][/\ reaction' = ""
     /\ \A r \in returned' : lastReads'[r] = Reads(r, value)]_vars

\* C18 witness: eo has re-run and constructed ci inside its callback, after
\* an earlier construction of ci had thrown; both recorded their own reads.
C18_Witness ==
  /\ op = Step("rerun", "eo", NONE)
  /\ returned = {"eo", "ci"}
  /\ lastReads["eo"] = <<"a", "b">>
  /\ lastReads["ci"] = <<"b">>

\* C19: for a storage-backed signal, once the flush that follows any
\* sequence of set, update, registerDependent, unregisterDependent and
\* unregisterAllDependents calls is over, the entry stored under the
\* signal's key is the serialization of the signal's current value.
C19_StorageFollowsValue ==
  \A key \in Stored :
    (created[key] /\ microtasks = <<>>) =>
       /\ key \in DOMAIN storage
       /\ storage[key] = Stringify(value[key])

\* the DOM event listeners of element el that react to event ev
Installed(el, ev) ==
  {i \in 1..Len(Attrs(el)) :
     /\ Attrs(el)[i].prop \in DOMAIN inputBindings
     /\ inputBindings[Attrs(el)[i].prop] = ev
     /\ inBound[el][i] >= 1}

C30_FlushFindsAnEvent ==
  [][\A s \in Sig :
       IsMicrotask("processUpdates", s) =>
          /\ lastEvent[s] # NO_EMIT_VALUE
          /\ error' # "No event to process"]_vars

\* C30 witness: a flush callback ran to its end after every listener that
\* was scheduled had been taken off again, with a second flush still queued.
C30_Witness ==
  /\ op.name = "processUpdates"
  /\ error = ""
  /\ log = <<>>
  /\ cancelled[op.obj] # {}
  /\ microtasks # <<>>

\* the signal named by attribute b is readable / the binding of attribute b
\* adds an output listener, an input listener, when the context has the
\* names g (attributes without a dotted path)
ReadableName(n) == n \in DOMAIN value
ValidOut(b, g) ==
  /\ b.type \in {"iobind", "obind"}
  /\ b.name \in g
  /\ ReadableName(b.name)
ValidIn(b, g) ==
  /\ b.type \in {"iobind", "ibind"}
  /\ b.name \in g
  /\ Writable(b.name)
  /\ b.type = "iobind" => ReadableName(b.name)
  /\ b.prop \in DOMAIN inputBindings
\* createBindings marks an element with such an attribute
Bindable(el, g) ==
  \E i \in 1..Len(Attrs(el)) :
     \/ ValidOut(Attrs(el)[i], g)
     \/ /\ Attrs(el)[i].type = "ibind"
        /\ Attrs(el)[i].name \in g
        /\ Writable(Attrs(el)[i].name)

\* C21: an initIndulgent call on a root that is already observed merges its
\* context into globalCtx (every name given before is still there, and the
\* names of the call are added), leaves exactly one MutationObserver on the
\* root, and binds every element of the page that was unmarked and has a
\* binding attribute that resolves in the merged context.
C21_InitAgainMergesAndRescans ==
  [][(op'.name = "initIndulgent" /\ inits' = inits + 1) =>
        /\ DOMAIN globalCtx \subseteq DOMAIN globalCtx'
        /\ \E ctx \in Ctxs : /\ Cardinality(ctx) = op'.arg
                             /\ ctx \subseteq DOMAIN globalCtx'
        /\ observers' = 1
        /\ \A el \in inDom \ marked :
              Bindable(el, DOMAIN globalCtx') => el \in marked']_vars

\* C21 witness: the second initIndulgent call has bound an element that the
\* first one had visited and left unmarked, and one observer is installed.
C21_Witness ==
  /\ op.name = "initIndulgent"
  /\ inits = 2
  /\ observers = 1
  /\ "x2" \in skipped \cap marked
  /\ outBound["x2"][1] = 1

C24_TwoWayBindingAgrees ==
  [][\A el \in {"x1", "x2"} : \A i \in 1..Len(Attrs(el)) :
       LET b == Attrs(el)[i]
       IN (b.type = "iobind" /\ inBound'[el][i] >= 1) =>
            /\ (/\ op'.name = "event" /\ ops' = ops + 1
                /\ op'.obj = el /\ op'.lis = inputBindings[b.prop]
                /\ inBound[el][i] >= 1) =>
                  /\ value'[b.name] = op'.arg
                  /\ value'[b.name] = props'[el][b.prop]
            /\ (\A k \in 1..Len(microtasks') :
                  microtasks'[k] # [kind |-> "processUpdates", of |-> b.name])
                => props'[el][b.prop] = value'[b.name]]_vars

\* C24 witness: the last flush of a burst in which the page's code changed
\* a, after an input event on x1 that made a set call, leaves the property
\* and the signal equal.
C24_Witness ==
  /\ op.name = "processUpdates"
  /\ op.obj = "a"
  /\ microtasks = <<>>
  /\ mode = "mixed"
  /\ inputSets = 1
  /\ sets["a"] >= 1
  /\ log = <<"x1.value#1">>
  /\ props["x1"]["value"] = value["a"]

\* C26: in a scan (an initIndulgent call or an observer callback) no
\* exception is thrown, and every element the scan visits gets every binding
\* whose attribute is in order installed, whatever is wrong with the other
\* attributes of the element or with the elements visited before it.
C26_ErrorsSkipOneAttribute ==
  [][(op'.name \in {"initIndulgent", "observe"}) =>
        /\ error' = ""
        /\ \A el \in El :
             (/\ el \notin marked
              /\ \/ op'.name = "initIndulgent" /\ el \in inDom
                 \/ op'.name = "observe"
                    /\ \E k \in 1..Len(mutations) : el \in Range(mutations[k]))
             => \A i \in 1..Len(Attrs(el)) :
                  /\ ValidOut(Attrs(el)[i], DOMAIN globalCtx') =>
                       outBound'[el][i] = outBound[el][i] + 1
                  /\ ValidIn(Attrs(el)[i], DOMAIN globalCtx') =>
                       inBound'[el][i] = inBound[el][i] + 1]_vars

\* C26 witness: one initIndulgent call, with a context that lacks b, has
\* visited x1, x2 and x3: x2 got nothing; x3 got the output bindings of its
\* first and last attribute, around four attributes with errors.
C26_Witness ==
  /\ op.name = "initIndulgent"
  /\ inits = 1
  /\ inDom = El
  /\ "x2" \in skipped \ marked
  /\ "x1" \in marked
  /\ "x3" \in marked
  /\ outBound["x3"] = <<1, 0, 0, 0, 0, 1>>
  /\ inBound["x3"] = <<0, 0, 0, 0, 0, 0>>

\* C22: when the observer is told of a subtree inserted below the root,
\* every element of the subtree (the inserted node and its descendants) that
\* is not bound yet and has a binding attribute that resolves in the context
\* gets bound by the observer's callback.
C22_InsertedSubtreeIsBound ==
  [][(IsMicrotask("observe", "root") /\ op'.name = "observe") =>
        \A k \in 1..Len(mutations) : \A node \in Range(mutations[k]) :
           \A el \in Range(Subtree(node)) :
              (el \notin marked /\ Bindable(el, DOMAIN globalCtx))
                 => el \in marked']_vars

\* C25: for an attribute whose value is a dotted path, no DOM event listener
\* is ever installed (ibind, and the input half of iobind), scans and input
\* events raise nothing and an input event sets no signal; the output half
\* shows the value at the path when it is installed, and when the flushes
\* that follow a replacement of the base signal have all run, the property
\* written by the last of them is the value at the path of the new object.
C25_DottedPathIsOutputOnly ==
  [][/\ \A el \in Dotted : \A i \in 1..Len(Attrs(el)) :
          LET b == Attrs(el)[i]
          IN /\ inBound'[el][i] = 0
             /\ outBound'[el][i] > outBound[el][i] =>
                   props'[el][b.prop] = walk(value'[b.name], b.path)
     /\ op'.name \in {"initIndulgent", "observe", "event"} => error' = ""
     /\ op'.name = "event" => inputSets' = 0 /\ value' = value
     /\ \A c \in DOMAIN computeFns :
          (/\ IsMicrotask("processUpdates", c)
           /\ op'.name = "processUpdates"
           /\ microtasks' = <<>>) =>
             \A l \in Range(scheduledUpdates[c]) \cap DOMAIN closures :
                props'[closures[l].el][closures[l].prop] =
                  walk(value'[computeFns[c].src], computeFns[c].path)]_vars

\* C25 witness: the page replaced u by an object with another name, and the
\* last flush of the burst has written that name to the value of z1, which
\* has one output listener and no DOM event listener.
C25_Witness ==
  /\ op.name = "processUpdates"
  /\ op.obj \in DOMAIN computeFns
  /\ microtasks = <<>>
  /\ "u" \in DOMAIN sets
  /\ sets["u"] >= 1
  /\ value["u"] = Obj(1, 0)
  /\ outBound["z1"][1] = 1
  /\ inBound["z1"][1] = 0
  /\ log = <<"z1.value#1">>
  /\ props["z1"]["value"] = 0

\* the live clones of the list, in document order; a template has been
\* handled when its placeholder is in the list
Live == SelectSeq(nodes, LAMBDA n : n \in DOMAIN forMark)
Handled == \E t \in Templates : Placeholder(t) \in Range(nodes)

\* C27: once the template has been handled, whenever no microtask is
\* pending the list holds exactly one live clone per index of the array, in
\* index order, and the bound property of each clone shows the name of the
\* item at its index.
C27_OneCloneForEachIndex ==
  (Handled /\ microtasks = <<>>) =>
     LET items == Items(value["items"])
     IN /\ Len(Live) = Len(items)
        /\ \A j \in 1..Len(Live) :
              /\ j <= Len(items)
              /\ forMark[Live[j]].key = Key("items", j - 1)
              /\ props[Live[j]]["textContent"] = getPath(items[j], "name")

\* C28: with a key path, a flush of the array signal keeps in the list
\* every clone whose item has a key that the new array still has.
C28_KeptKeyKeepsElement ==
  [][(/\ op'.name = "processUpdates"
      /\ op'.obj = "items"
      /\ microtasks # <<>>
      /\ Head(microtasks) = [kind |-> "processUpdates", of |-> "items"]
      /\ microtasks' # microtasks)
       => \A j \in 1..Len(Live) :
            (/\ forMark[Live[j]].for \in {"li", "p"}
             /\ \E i \in 1..Len(Items(value'["items"])) :
                   getPath(Items(value'["items"])[i], "id")
                     = getPath(forMark[Live[j]].item, "id"))
            => Live[j] \in Range(nodes')]_vars

\* C29: when the array has shrunk and no microtask is pending, the signals
\* of the indices that are gone have no dependents and are not subscribed
\* to the array signal, and no listener of a clone of such an index is
\* registered on any signal.
C29_ShrinkLeavesNoSubscriptions ==
  (Handled /\ microtasks = <<>>) =>
     LET n == Len(Items(value["items"]))
     IN /\ \A c \in DOMAIN computeFns :
              (computeFns[c].kind = "index" /\ computeFns[c].index >= n) =>
                 /\ dependents[c] = {}
                 /\ c \notin Range(listeners["items"])
        /\ \A l \in DOMAIN closures :
              (/\ closures[l].kind = "modifyProperty"
               /\ closures[l].el \in DOMAIN forMark
               /\ forMark[closures[l].el].key
                    \in {Key("items", i) : i \in n..nextId})
              => \A s \in DOMAIN dependents : l \notin dependents[s]

\* C31: the list that track(fn) returns holds each signal that fn read
\* exactly once: no signal is listed twice, also when fn called its get()
\* several times.
C31_TrackListsEachSignalOnce ==
  \A r \in Reactors :
     \A i, j \in 1..Len(lastReads[r]) :
        i # j => lastReads[r][i] # lastReads[r][j]

\* C32: at most one computed signal exists per dotted path of a base signal:
\* resolving the same path again, for another element or in a later scan,
\* creates no second computed signal subscribed to the base signal.
C32_OneComputedPerPath ==
  \A c, d \in DOMAIN computeFns :
     (/\ computeFns[c].kind = "path"
      /\ computeFns[d].kind = "path"
      /\ computeFns[c].src = computeFns[d].src
      /\ computeFns[c].path = computeFns[d].path
      /\ computeFns[c].src \in dependencies[c]
      /\ computeFns[d].src \in dependencies[d])
     => c = d

\* C33: after every step in which a reconciliation pass for the array
\* signal items has run (the initIndulgent call that handles the template,
\* and every flush of items after it), the context has a key
\* __indulgent_for_items_i exactly for the indices i of the array's value,
\* whatever keys the calls in between have put into the context.
C33_OneKeyForEachIndex ==
  [][(\/ /\ op'.name = "processUpdates"
         /\ op'.obj = "items"
         /\ microtasks # <<>>
         /\ microtasks' # microtasks
         /\ Head(microtasks) = [kind |-> "processUpdates", of |-> "items"]
         /\ \E l \in Range(scheduledUpdates["items"]) :
               closures[l].kind = "arrayUpdate"
      \/ /\ op'.name = "initIndulgent"
         /\ inits' = inits + 1
         /\ ~Handled
         /\ Handled')
     => {k \in DOMAIN globalCtx' : IsIndexKey(k)}
          = {Key("items", i) : i \in 0..Len(Items(value'["items"])) - 1}]_vars

\* C33 witness: a flush of items, after two initIndulgent calls and after
\* the array shrank from two items to one, has left the key of index 0 only.
C33_Witness ==
  /\ op.name = "processUpdates"
  /\ op.obj = "items"
  /\ inits = 2
  /\ Len(Items(value["items"])) = 1
  /\ sets["items"] >= 1
  /\ DOMAIN globalCtx = {"items", Key("items", 0)}
  /\ \E c \in DOMAIN computeFns :
        computeFns[c].kind = "index" /\ computeFns[c].index = 1

\* C34: with the template li (bind:for="item of items by item.id"), a flush
\* of the array signal that runs a reconciliation pass replaces the signal
\* of an index that stays in the array exactly when the id of the new item
\* at the index differs from the id of the item the signal held before.
C34_SignalKeptIffSameKey ==
  [][(/\ op'.name = "processUpdates"
      /\ op'.obj = "items"
      /\ microtasks # <<>>
      /\ microtasks' # microtasks
      /\ Head(microtasks) = [kind |-> "processUpdates", of |-> "items"]
      /\ Placeholder("li") \in Range(nodes)
      /\ \E l \in Range(scheduledUpdates["items"]) :
            closures[l].kind = "arrayUpdate")
     => \A i \in 0..Len(Items(value'["items"])) - 1 :
          (/\ Key("items", i) \in DOMAIN globalCtx
           /\ globalCtx[Key("items", i)] \in DOMAIN value
           /\ IsObj(value[globalCtx[Key("items", i)]]))
          => ((globalCtx'[Key("items", i)] # globalCtx[Key("items", i)])
               <=> (getPath(Items(value'["items"])[i + 1], "id")
                      # getPath(value[globalCtx[Key("items", i)]], "id")))]_vars

\* C35: once the template d has been handled and no microtask is pending,
\* in every clone of d in the list the clone itself, its child and its
\* grandchild have each attribute that named the item rewritten to the key
\* of the clone's index, and the binding of that attribute is installed.
C35_DescendantsAreBound ==
  (Placeholder("d") \in Range(nodes) /\ microtasks = <<>>) =>
     \A j \in 1..Len(Live) :
        \A el \in Range(descendants(Cur, <<Live[j]>>)) :
           \A i \in DOMAIN attrs[el] :
              /\ attrs[el][i].name = forMark[Live[j]].key
              /\ outBound[el][i] > 0

\* C36: once the template m has been handled and no microtask is pending,
\* no clone of m in the list has a data-indulgent-id that no binding of its
\* own stands for: the binding of the clone's item attribute is installed.
C36_CloneGetsItsBindings ==
  (Placeholder("m") \in Range(nodes) /\ microtasks = <<>>) =>
     \A j \in 1..Len(Live) :
        \E i \in DOMAIN attrs[Live[j]] :
           /\ attrs[Live[j]][i].name = forMark[Live[j]].key
           /\ outBound[Live[j]][i] > 0

\* C37: a flush of the array signal leaves no more closures of the list
\* reconciler (the update of handleForBindings and the update of
\* manageArraySignals) registered on the array signal than there were
\* before the flush.
C37_PassAddsNoListener ==
  [][(/\ op'.name = "processUpdates"
      /\ op'.obj = "items"
      /\ microtasks # <<>>
      /\ microtasks' # microtasks
      /\ Head(microtasks) = [kind |-> "processUpdates", of |-> "items"])
     => Cardinality({i \in DOMAIN listeners'["items"] :
                       /\ listeners'["items"][i] \in DOMAIN closures'
                       /\ closures'[listeners'["items"][i]].kind
                            \in {"forUpdate", "arrayUpdate"}})
          <= Cardinality({i \in DOMAIN listeners["items"] :
                            /\ listeners["items"][i] \in DOMAIN closures
                            /\ closures[listeners["items"][i]].kind
                                 \in {"forUpdate", "arrayUpdate"}})]_vars

\* C38: a flush of a for which the callback LS, which sets a, is scheduled
\* calls each scheduled listener at most once, and calls it with the value
\* that was pending when the flush began.
C38_FlushCallsOnceWithItsValue ==
  [][(/\ op'.name = "processUpdates"
      /\ op'.obj = "a"
      /\ microtasks # <<>>
      /\ Head(microtasks) = [kind |-> "processUpdates", of |-> "a"]
      /\ "LS" \in Range(scheduledUpdates["a"]))
     => \A l \in Range(scheduledUpdates["a"]) :
          /\ Cardinality({i \in DOMAIN log' : log'[i] = l}) <= 1
          /\ l \in Range(log') => args'["a"][l] = lastEvent["a"]]_vars

\* C39: a flush of a for which the throwing callback LT is scheduled calls
\* every other scheduled listener exactly once and with the pending value.
C39_ThrowSkipsNoListener ==
  [][(/\ op'.name = "processUpdates"
      /\ op'.obj = "a"
      /\ microtasks # <<>>
      /\ Head(microtasks) = [kind |-> "processUpdates", of |-> "a"]
      /\ "LT" \in Range(scheduledUpdates["a"]))
     => \A l \in Range(scheduledUpdates["a"]) \ {"LT"} :
          /\ Cardinality({i \in DOMAIN log' : log'[i] = l}) = 1
          /\ args'["a"][l] = lastEvent["a"]]_vars

====
